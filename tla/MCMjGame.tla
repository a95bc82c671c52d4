------------------------------ MODULE MCMjGame ------------------------------
EXTENDS MjGame

\* The first bureau: chair 2 may claim the 1 of chair 0 and lay the fourth,
\* which chair 1 waits for; or chair 0 wins at once or gives chair 1, who has
\* three of it, the last tile; or chair 0 lays four of a kind and no tile is
\* left.  In the second bureau chair 0 may win again; in the third the tiles just
\* run out.
Bureaus == <<
    {<<1, 12, 13, 13,  2, 3, 11, 11,  1, 1, 12, 12,  13, 2, 11, 1, 35, 11>>,
     <<1, 2, 11, 11,  1, 1, 1, 35,  2, 3, 12, 13,  3, 12, 12>>,
     <<1, 1, 1, 2,  2, 2, 11, 12,  11, 11, 12, 13,  1, 35>>},
    {<<1, 2, 11, 11,  11, 12, 12, 35,  2, 3, 12, 13,  3, 1, 13>>},
    {<<1, 2, 3, 12,  1, 2, 3, 12,  1, 2, 3, 12,  35>>}>>

OneTestCard == {<<1, 12>>}
=============================================================================
