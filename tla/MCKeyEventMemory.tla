-------------------------- MODULE MCKeyEventMemory -------------------------
(* Two customers, one of them in the default file, and one conversation at  *)
(* a time in each session; messages that name nothing, a case, a case that  *)
(* there is not or a customer; a version 1 file may be there.               *)
EXTENDS KeyEventMemory, TLC

CONSTANTS u1, u2, s1

Message(role, points, words) == [role |-> role, points |-> points, words |-> words]

CustomerMessages == {Message("customer", {"hardship"}, {})}
AgentMessages    == {Message("agent", {"verify"}, {"refusal"}),
                     Message("agent", {"verify", "promise"}, {"promise"})}
NobodyNamed      == [case |-> None, customer |-> None]
Named            == {NobodyNamed,
                     [NobodyNamed EXCEPT !.case = u2],
                     [NobodyNamed EXCEPT !.case = Unknown],
                     [NobodyNamed EXCEPT !.customer = u2]}
Seeds            == [u \in {u1} |-> {"seed"}]
OldCounts        == {[e \in {"event"} |-> 2]}
OldSessions      == {<<[user |-> u1, points |-> {"old"}],
                       [user |-> s1, points |-> {"old"}],
                       [user |-> u1, points |-> {}]>>}
=============================================================================
