---------------------------- MODULE MCServerLinks ----------------------------
(***************************************************************************)
(* The links of the servers to the center, for TLC: a behaviour is one of  *)
(* CtxServerCalls or of CtxServerNames, and part says which; the other     *)
(* stays at its beginning.  Names and lookups have a part each: in one     *)
(* nobody looks a name up, in the other there is none.                     *)
(***************************************************************************)
EXTENDS CtxServerCalls, TLC

CONSTANTS a, b, c1, c2, n1, l1, l2

(* c1 is a call of a ctx of b, c2 of one that b or the center has. *)
AllFromA == [c \in Call |-> a]
OneLocal == [c \in Call |-> IF c = c1 THEN {b} ELSE {b, Center}]

(* The caller's server has a second process or a second connection. *)
OneOfA == [s \in Server |-> IF s = a THEN 1 ELSE 0]
TwoOfA == [s \in Server |-> IF s = a THEN 2 ELSE 1]

VARIABLES
  part,
  named, ops, m_map, m_vtRequest, session, packets, known, changes, overtaken, disturbed,
  nConn, nGen, nDoomed, nInbox, nPc, nRet

namesVars ==
  <<named, ops, m_map, m_vtRequest, session, packets, known, changes, overtaken, disturbed,
    nConn, nGen, nDoomed, nInbox, nPc, nRet>>
all == <<part, vars, namesVars>>

(* Both lookups are of the one name. *)
Names == INSTANCE CtxServerNames WITH
  Server <- {a}, Name <- {n1}, Lookup <- {l1, l2},
  Asker <- [l \in {l1, l2} |-> a], Wanted <- [l \in {l1, l2} |-> n1],
  MaxConn <- 2, MaxChange <- 3,
  conn <- nConn, gen <- nGen, doomed <- nDoomed, inbox <- nInbox, pc <- nPc, ret <- nRet

InCalls(A) == part = "calls" /\ A /\ UNCHANGED <<part, namesVars>>
InNames(A) ==
  /\ A /\ UNCHANGED <<part, vars>>
  /\ (part = "names" /\ nPc' = nPc) \/ (part = "lookups" /\ changes' = 0)

LinksInit == Init /\ Names!Init /\ part \in {"calls", "names", "lookups"}

LinksNext == InCalls(Next) \/ InNames(Names!Next)

(* The fairness of the two: a behaviour stays in its part, so what is fair *)
(* for each is fair for any.                                               *)
LinksFairness ==
  /\ WF_all(\/ InCalls(\E msg \in inbox[a] : ReceiveDisconnect(a, msg))
            \/ InNames(Names!CtxMessage(a)))
  /\ WF_all(\/ InCalls(\E c \in Open(a) : OnTimerCheckTimeout(c))
            \/ InNames(Names!OnTimerCheckTimeout(a)))
  /\ WF_all(\/ InCalls(doomed[a] /\ OnDisconnect(a))
            \/ InNames(nDoomed[a] /\ Names!OnDisconnect(a)))

LinksSpec == LinksInit /\ [][LinksNext]_all /\ LinksFairness

(* The types of the two modules. *)
LinksTypeOK == TypeOK /\ Names!TypeOK

(* The properties of CtxServerNames: the center knows the names a server   *)
(* has.                                                                    *)
NamesInStep == Names!NamesInStep

(* A lookup gets the reply to itself. *)
LookupInStep == Names!LookupInStep

(* Every lookup ends. *)
LookupsEnd == <>[]Names!NoneSent

=============================================================================
