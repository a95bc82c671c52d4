------------------------------- MODULE MCClubs -------------------------------
EXTENDS Clubs

CONSTANTS a, b, c, r1

NoEntry == <<>>
Low(spreader, invite, score) ==
    <<[union |-> 11, invite |-> invite, spreader |-> spreader, score |-> score,
       partner |-> FALSE]>>
Club(members) == [NewUnion(11, a) EXCEPT !.curMember = members]

\* The union 11 of a, with b below a; c is below b or not in it.
Documents(ofC, members, counters) ==
    [users |-> [u \in Users |->
        [lock |-> FALSE, room |-> NoRoom,
         info |-> CASE u = a -> Low(NoUser, 1, 0) [] u = b -> Low(a, 2, 1) [] u = c -> ofC]],
     unions |-> <<Club(members)>>, counters |-> counters,
     changes |-> [u \in Users |-> 0], servers |-> {}]
WithC == Documents(Low(b, 3, 1), 3, [union |-> 11, invite |-> 3])
WithoutC == Documents(NoEntry, 2, [union |-> 11, invite |-> 3])
Nothing == [WithC EXCEPT !.users = [u \in Users |-> [@[u] EXCEPT !.info = NoEntry]],
                         !.unions = <<>>, !.counters = [k \in Counters |-> Absent]]
Envelopes == [WithoutC EXCEPT !.unions[1].set.hongBao = TRUE, !.unions[1].list = TRUE]
Ruled == [WithoutC EXCEPT !.unions[1].set.rules = 1]

Call(op, uid, other, union, n) ==
    [op |-> op, uid |-> uid, other |-> other, union |-> union, n |-> n]

ScoreCalls == {
    Call("ModifyScore", b, c, 11, 1), Call("ModifyScore", a, b, 11, 1),
    Call("GiveScore", b, c, 11, 1), Call("GiveScore", c, b, 11, 1),
    Call("GiveScore", a, c, 11, 1), Call("SafeBoxOperation", b, b, 11, 1),
    Call("AddPartner", b, c, 11, 0), Call("ExitUnion", b, b, 11, 0),
    Call("ExitUnion", c, c, 11, 0)}
MemberCalls == {
    Call("JoinUnion", c, c, 0, 2), Call("InviteJoinUnion", a, c, 11, 0),
    Call("ExitUnion", a, a, 11, 0), Call("ExitUnion", b, b, 11, 0),
    Call("ExitUnion", c, c, 11, 0)}
FirstCalls == {
    Call("CreateUnion", a, a, 0, 0), Call("CreateUnion", b, b, 0, 0),
    Call("JoinUnion", c, c, 0, 1)}
RoomCalls == {
    Call("CreateRoom", b, b, 11, 0), Call("CreateRoom", c, c, 1, 0),
    Call("JoinRoom", a, a, 0, r1), Call("JoinRoom", b, b, 0, r1),
    Call("JoinRoom", c, c, 0, r1), Call("LeaveRoom", b, b, 0, 0),
    Call("QuickJoin", b, b, 11, 0), Call("QuickJoin", c, c, 11, 0),
    Call("DismissRoom", a, a, 11, r1)}
EnvelopeCalls == {
    Call("GetHongBao", b, b, 11, 0), Call("GetHongBao", c, c, 11, 0),
    Call("HongBaoSetting", a, a, 11, 1), Call("HongBaoSetting", a, a, 11, 0)}
SettingCalls == {
    Call("UpdateOpeningStatus", a, a, 11, 1), Call("UpdateOpeningStatus", a, a, 11, 0),
    Call("UpdateUnionNotice", a, a, 11, 1), Call("UpdateLotteryStatus", a, a, 11, 1),
    Call("AddRoomRuleList", a, a, 11, 0), Call("QuickJoin", b, b, 11, 0)}

Start(docs, calls) == [docs |-> docs, calls |-> calls]
AllStarts == <<
    Start(WithC, ScoreCalls), Start(WithC, MemberCalls), Start(WithoutC, MemberCalls),
    Start(Nothing, FirstCalls), Start(Ruled, RoomCalls), Start(Envelopes, EnvelopeCalls),
    Start(WithC, SettingCalls)>>
=============================================================================
