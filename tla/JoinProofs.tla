----------------------------- MODULE JoinProofs -----------------------------
(***************************************************************************)
(* Joining a shard, for every number of nodes, tries, crashes and          *)
(* elections: a node that is told it was added belongs to the committed    *)
(* configuration, and no member is lost from it.  Both rest on BADIS_NODE_ID *)
(* being set to a name of its own on every node: AddVoter takes a second   *)
(* node with a known ID for the first one at a new address.                *)
(***************************************************************************)
EXTENDS Join, TLAPS

\* The operator gave every node an ID of its own.
DistinctIDs == \A m, n \in Nodes : ID[m] = ID[n] => m = n

(***************************************************************************)
(* The inductive invariant.                                                *)
(***************************************************************************)
\* A process that may still ask has a try left.
TriesLeft == \A n \in Nodes : pc[n] \in {"admin", "joining"} => tries[n] < MaxTries

\* A change under way only adds servers.
ConfigGrows == committed \subseteq config

\* A request whose future is waited for was made by the seed, which leads ever
\* since, and its server is in the latest configuration.
WaitingIsConfigured ==
    \A r \in reqs : r.stage = "waiting" => leader = Seed /\ Me(r.from) \in config

\* An answer on its way says what is committed.
AnswerIsCommitted == \A r \in reqs : r.stage = "added" => Me(r.from) \in committed

TypeInv == TypeOK /\ TriesLeft

MembershipInv == /\ ConfigGrows /\ WaitingIsConfigured /\ AnswerIsCommitted
                 /\ AddedMeansCommitted

(***************************************************************************)
(* Types.                                                                  *)
(***************************************************************************)
Stages == {"sent", "leading", "known", "unknown", "waiting", "added", "failed"}

\* Moving a request on to another stage keeps the requests well-formed.
LEMMA StageType ==
    ASSUME TypeOK, NEW r \in reqs, NEW s \in Stages
    PROVE  /\ Stage(r, s) \subseteq [from : Nodes, no : Nat \ {0}, stage : Stages]
           /\ \A q \in Stage(r, s) : q.no <= sent[q.from]
<1>1. r \in [from : Nodes, no : Nat \ {0}, stage : Stages] /\ r.no <= sent[r.from]
  BY DEF TypeOK, Stages
<1>2. [r EXCEPT !.stage = s] = [from |-> r.from, no |-> r.no, stage |-> s]
  BY <1>1
<1> QED BY <1>1, <1>2 DEF Stage, TypeOK, Stages

\* So does letting any of them fail.
LEMMA FailType ==
    ASSUME TypeOK, NEW S,
           \A q \in S : \E r \in reqs : q = r \/ q = [r EXCEPT !.stage = "failed"]
    PROVE  /\ S \subseteq [from : Nodes, no : Nat \ {0}, stage : Stages]
           /\ \A q \in S : q.no <= sent[q.from]
<1> SUFFICES ASSUME NEW q \in S
             PROVE  /\ q \in [from : Nodes, no : Nat \ {0}, stage : Stages]
                    /\ q.no <= sent[q.from]
  OBVIOUS
<1>1. PICK r \in reqs : q = r \/ q = [r EXCEPT !.stage = "failed"]
  OBVIOUS
<1>2. r \in [from : Nodes, no : Nat \ {0}, stage : Stages] /\ r.no <= sent[r.from]
  BY DEF TypeOK, Stages
<1>3. [r EXCEPT !.stage = "failed"] = [from |-> r.from, no |-> r.no, stage |-> "failed"]
  BY <1>2
<1> QED BY <1>1, <1>2, <1>3 DEF Stages

\* The initial state is well typed.
LEMMA TypeInit == Init => TypeInv
BY JoinAssumption DEF Init, TypeInv, TypeOK, TriesLeft

\* Every step keeps the types, and a try for those that may ask.
LEMMA TypeStep == TypeInv /\ [Next]_vars => TypeInv'
<1> SUFFICES ASSUME TypeInv, [Next]_vars PROVE TypeInv'
  OBVIOUS
<1> USE JoinAssumption
<1>1. TypeOK /\ TriesLeft
  BY DEF TypeInv
<1>2. ASSUME NEW n \in Nodes, StartAdmin(n) PROVE TypeInv'
  BY <1>1, <1>2 DEF StartAdmin, TypeInv, TypeOK, TriesLeft, Servers, Me
<1>3. ASSUME NEW n \in Nodes, SetupRaft(n) PROVE TypeInv'
  BY <1>1, <1>3 DEF SetupRaft, TypeInv, TypeOK, TriesLeft, Servers, Me
<1>4. ASSUME NEW n \in Nodes, Bootstrap(n) PROVE TypeInv'
  BY <1>1, <1>4 DEF Bootstrap, TypeInv, TypeOK, TriesLeft, Servers, Me
<1>5. ASSUME NEW n \in Nodes, Ask(n) PROVE TypeInv'
  BY <1>1, <1>5 DEF Ask, TypeInv, TypeOK, TriesLeft, Servers, Me
<1>6. ASSUME NEW n \in Nodes, Elect(n) PROVE TypeInv'
  BY <1>1, <1>6 DEF Elect, TypeInv, TypeOK, TriesLeft, Servers, Me
<1>7. ASSUME NEW n \in Nodes, Crash(n) PROVE TypeInv'
  <2>1. /\ reqs' \subseteq [from : Nodes, no : Nat \ {0}, stage : Stages]
        /\ \A q \in reqs' : q.no <= sent[q.from]
    <3>1. \A q \in reqs' : \E r \in reqs : q = r \/ q = [r EXCEPT !.stage = "failed"]
      BY <1>7 DEF Crash
    <3> QED BY <1>1, <3>1, FailType
  <2> QED BY <1>1, <1>7, <2>1 DEF Crash, TypeInv, TypeOK, TriesLeft, Servers, Me, Stages
<1>8. ASSUME NEW r \in reqs, Check(r) PROVE TypeInv'
  BY <1>1, <1>8, StageType DEF Check, TypeInv, TypeOK, TriesLeft, Servers, Me, Stages
<1>s. ASSUME NEW r \in reqs, Search(r) PROVE TypeInv'
  BY <1>1, <1>s, StageType DEF Search, TypeInv, TypeOK, TriesLeft, Servers, Me, Stages
<1>9. ASSUME NEW r \in reqs, AddVoter(r) PROVE TypeInv'
  BY <1>1, <1>9, StageType DEF AddVoter, TypeInv, TypeOK, TriesLeft, Servers, Me, Stages
<1>10. ASSUME NEW r \in reqs, Added(r) PROVE TypeInv'
  BY <1>1, <1>10, StageType DEF Added, TypeInv, TypeOK, TriesLeft, Servers, Me, Stages
<1>11. ASSUME NEW r \in reqs, Hear(r) PROVE TypeInv'
  BY <1>1, <1>11 DEF Hear, TypeInv, TypeOK, TriesLeft, Servers, Me
<1>12. ASSUME NEW r \in reqs, Lose(r) PROVE TypeInv'
  BY <1>1, <1>12, StageType DEF Lose, TypeInv, TypeOK, TriesLeft, Servers, Me, Stages
<1>13. ASSUME CommitConfig PROVE TypeInv'
  BY <1>1, <1>13 DEF CommitConfig, TypeInv, TypeOK, TriesLeft, Servers, Me
<1>14. ASSUME StepDown PROVE TypeInv'
  <2>1. /\ reqs' \subseteq [from : Nodes, no : Nat \ {0}, stage : Stages]
        /\ \A q \in reqs' : q.no <= sent[q.from]
    <3>1. \A q \in reqs' : \E r \in reqs : q = r \/ q = [r EXCEPT !.stage = "failed"]
      BY <1>14 DEF StepDown, Fail
    <3> QED BY <1>1, <3>1, FailType
  <2> QED BY <1>1, <1>14, <2>1 DEF StepDown, TypeInv, TypeOK, TriesLeft, Servers, Me, Stages
<1>15. ASSUME UNCHANGED vars PROVE TypeInv'
  BY <1>1, <1>15 DEF vars, TypeInv, TypeOK, TriesLeft, Servers, Me
<1> QED BY <1>2, <1>3, <1>4, <1>5, <1>6, <1>7, <1>8, <1>s, <1>9, <1>10, <1>11, <1>12,
           <1>13, <1>14, <1>15 DEF Next

\* Types: whatever crashed or was lost, requests, tries and configurations are
\* well formed, and a node never asks more often than main allows.
THEOREM TypeCorrect == Spec => []TypeOK
<1>1. TypeInv => TypeOK
  BY DEF TypeInv
<1> QED BY <1>1, TypeInit, TypeStep, PTL DEF Spec

(***************************************************************************)
(* Membership.                                                             *)
(***************************************************************************)
\* Of a well-formed request, a move to another stage changes nothing else.
LEMMA StageOnly ==
    ASSUME TypeOK, NEW r \in reqs, NEW s, NEW q \in Stage(r, s)
    PROVE  q \in reqs \/ (q.from = r.from /\ q.stage = s)
BY DEF TypeOK, Stage

\* A step that lets requests fail, or leaves them alone, keeps what is known of
\* those that wait for their future or their answer.
LEMMA FailOnly ==
    ASSUME TypeOK, NEW r \in reqs, NEW q, q = [r EXCEPT !.stage = "failed"]
    PROVE  q.from = r.from /\ q.stage = "failed"
BY DEF TypeOK

\* With IDs of their own, AddVoter adds the node and drops nobody.
LEMMA RestIsAll ==
    ASSUME DistinctIDs, TypeOK, NEW n \in Nodes
    PROVE  config \subseteq {s \in config : s.id # ID[n]} \cup {Me(n)}
<1> SUFFICES ASSUME NEW s \in config, s.id = ID[n] PROVE s = Me(n)
  OBVIOUS
<1>1. PICK m \in Nodes : s = Me(m)
  BY DEF TypeOK, Servers
<1>2. s.id = ID[m]
  BY <1>1 DEF Me
<1> QED BY <1>1, <1>2 DEF DistinctIDs

\* Nobody has joined at first.
LEMMA MembershipInit == Init => MembershipInv
BY DEF Init, MembershipInv, ConfigGrows, WaitingIsConfigured, AnswerIsCommitted,
       AddedMeansCommitted

\* Every step keeps requests and answers in line with the configurations, and
\* drops no member.
LEMMA MembershipStep ==
    ASSUME DistinctIDs, TypeInv, MembershipInv, [Next]_vars
    PROVE  MembershipInv' /\ committed \subseteq committed'
<1> DEFINE Goal == MembershipInv' /\ committed \subseteq committed'
<1> USE JoinAssumption DEF Me
<1>1. TypeOK /\ ConfigGrows /\ WaitingIsConfigured /\ AnswerIsCommitted
      /\ AddedMeansCommitted
  BY DEF TypeInv, MembershipInv
<1>2. ASSUME NEW n \in Nodes, StartAdmin(n) PROVE Goal
  BY <1>1, <1>2 DEF StartAdmin, TypeOK, MembershipInv, ConfigGrows,
     WaitingIsConfigured, AnswerIsCommitted, AddedMeansCommitted
<1>3. ASSUME NEW n \in Nodes, SetupRaft(n) PROVE Goal
  BY <1>1, <1>3 DEF SetupRaft, TypeOK, MembershipInv, ConfigGrows,
     WaitingIsConfigured, AnswerIsCommitted, AddedMeansCommitted
<1>4. ASSUME NEW n \in Nodes, Bootstrap(n) PROVE Goal
  BY <1>1, <1>4 DEF Bootstrap, TypeOK, MembershipInv, ConfigGrows,
     WaitingIsConfigured, AnswerIsCommitted, AddedMeansCommitted
<1>5. ASSUME NEW n \in Nodes, Ask(n) PROVE Goal
  BY <1>1, <1>5 DEF Ask, TypeOK, MembershipInv, ConfigGrows,
     WaitingIsConfigured, AnswerIsCommitted, AddedMeansCommitted
<1>6. ASSUME NEW n \in Nodes, Elect(n) PROVE Goal
  BY <1>1, <1>6 DEF Elect, TypeOK, MembershipInv, ConfigGrows,
     WaitingIsConfigured, AnswerIsCommitted, AddedMeansCommitted
<1>7. ASSUME NEW n \in Nodes, Crash(n) PROVE Goal
  BY <1>1, <1>7, FailOnly DEF Crash, TypeOK, MembershipInv, ConfigGrows,
     WaitingIsConfigured, AnswerIsCommitted, AddedMeansCommitted
<1>8. ASSUME NEW r \in reqs, Check(r) PROVE Goal
  BY <1>1, <1>8, StageOnly DEF Check, TypeOK, MembershipInv, ConfigGrows,
     WaitingIsConfigured, AnswerIsCommitted, AddedMeansCommitted
<1>s. ASSUME NEW r \in reqs, Search(r) PROVE Goal
  BY <1>1, <1>s, StageOnly DEF Search, TypeOK, MembershipInv, ConfigGrows,
     WaitingIsConfigured, AnswerIsCommitted, AddedMeansCommitted
<1>9. ASSUME NEW r \in reqs, AddVoter(r) PROVE Goal
  BY <1>1, <1>9, StageOnly, RestIsAll DEF AddVoter, TypeOK, MembershipInv,
     ConfigGrows, WaitingIsConfigured, AnswerIsCommitted, AddedMeansCommitted
<1>10. ASSUME NEW r \in reqs, Added(r) PROVE Goal
  BY <1>1, <1>10, StageOnly DEF Added, TypeOK, MembershipInv, ConfigGrows,
     WaitingIsConfigured, AnswerIsCommitted, AddedMeansCommitted
<1>11. ASSUME NEW r \in reqs, Hear(r) PROVE Goal
  BY <1>1, <1>11 DEF Hear, TypeOK, MembershipInv, ConfigGrows,
     WaitingIsConfigured, AnswerIsCommitted, AddedMeansCommitted
<1>12. ASSUME NEW r \in reqs, Lose(r) PROVE Goal
  BY <1>1, <1>12, StageOnly DEF Lose, TypeOK, MembershipInv, ConfigGrows,
     WaitingIsConfigured, AnswerIsCommitted, AddedMeansCommitted
<1>13. ASSUME CommitConfig PROVE Goal
  BY <1>1, <1>13 DEF CommitConfig, TypeOK, MembershipInv, ConfigGrows,
     WaitingIsConfigured, AnswerIsCommitted, AddedMeansCommitted
<1>14. ASSUME StepDown PROVE Goal
  BY <1>1, <1>14, FailOnly DEF StepDown, Fail, TypeOK, MembershipInv, ConfigGrows,
     WaitingIsConfigured, AnswerIsCommitted, AddedMeansCommitted
<1>15. ASSUME UNCHANGED vars PROVE Goal
  BY <1>1, <1>15 DEF vars, TypeOK, MembershipInv, ConfigGrows,
     WaitingIsConfigured, AnswerIsCommitted, AddedMeansCommitted
<1> QED BY <1>2, <1>3, <1>4, <1>5, <1>6, <1>7, <1>8, <1>s, <1>9, <1>10, <1>11, <1>12,
           <1>13, <1>14, <1>15 DEF Next

\* The answer "added" of handleRaftJoin can be relied on: with IDs of their own,
\* a node that heard it is in the committed configuration ever after.
THEOREM AddedNodesAreMembers ==
    ASSUME DistinctIDs
    PROVE  Spec => []AddedMeansCommitted
<1>1. MembershipInv => AddedMeansCommitted
  BY DEF MembershipInv
<1>2. TypeInv /\ MembershipInv /\ [Next]_vars => MembershipInv'
  BY MembershipStep
<1> QED BY <1>1, <1>2, TypeInit, TypeStep, MembershipInit, PTL DEF Spec

\* No sequence of joins, crashes and elections takes a member out of the
\* committed configuration or changes its address, as AddVoter would for an ID
\* it knows.
THEOREM MembersAreKept ==
    ASSUME DistinctIDs
    PROVE  Spec => MembersStay
<1>1. TypeInv /\ MembershipInv /\ [Next]_vars =>
        MembershipInv' /\ [committed \subseteq committed']_vars
  BY MembershipStep
<1> QED BY <1>1, TypeInit, TypeStep, MembershipInit, PTL DEF Spec, MembersStay
=============================================================================
