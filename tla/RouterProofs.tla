---------------------------- MODULE RouterProofs ----------------------------
(***************************************************************************)
(* Proxied commands, for every number of nodes, commands, attempts, hops   *)
(* and changes of the slot maps: what is answered was executed, and what   *)
(* was executed twice was sent again.                                      *)
(***************************************************************************)
EXTENDS Router, TLAPS

(***************************************************************************)
(* The inductive invariant.                                                *)
(***************************************************************************)
\* A handler that is about to answer OK knows that the command was executed.
OkWasExecuted == \A h \in calls : h.stage = "ok" => runs[h.cmd] # << >>

\* Only commands that were sent are at work or were executed.
OnlySent == /\ \A h \in calls : answer[h.cmd] # "unsent"
            /\ \A c \in Cmds : answer[c] = "unsent" => runs[c] = << >>

\* Of a command that nobody gave up, one handler is not waiting for another.
OneAtWork == \A g, h \in calls :
    /\ g.cmd = h.cmd /\ g.cmd \notin gaveUp
    /\ g.stage # "proxy" /\ h.stage # "proxy"
    => g = h

\* If that one has not executed the command, nobody has.
NotYetExecuted == \A h \in calls :
    h.stage \in {"new", "local"} /\ h.cmd \notin gaveUp => runs[h.cmd] = << >>

SafetyInv == /\ OkWasExecuted /\ OnlySent /\ OneAtWork /\ NotYetExecuted
             /\ AckedWasExecuted /\ OnceUnlessRetried

(***************************************************************************)
(* Handlers.                                                               *)
(***************************************************************************)
Handlers == [cmd : Cmds, path : Seq(Nodes \X Nat),
             stage : {"new", "local", "proxy", "ok", "error"}, try : 1 .. MaxTries]

\* A handler is on a node, and so is that of an attempt of its own.
LEMMA HandlerType ==
    ASSUME TypeOK, NEW h \in calls
    PROVE  /\ h \in Handlers /\ Len(h.path) \in 1 .. (MaxHops + 1)
           /\ At(h) \in Nodes
           /\ h.path[Len(h.path)] \in Nodes \X Nat
           /\ \A n \in Nodes, i \in Nat, s \in {"new", "error"} :
                /\ Attempt(h, n, i, s) \in Handlers
                /\ Attempt(h, n, i, s).cmd = h.cmd
                /\ Attempt(h, n, i, s).stage = s
                /\ Len(Attempt(h, n, i, s).path) = Len(h.path) + 1
<1>1. h \in Handlers /\ Len(h.path) \in 1 .. (MaxHops + 1)
  BY DEF TypeOK, Handlers
<1>2. h.path[Len(h.path)] \in Nodes \X Nat
  BY <1>1, RouterAssumption DEF Handlers
<1>3. At(h) \in Nodes
  BY <1>2 DEF At
<1>4. ASSUME NEW n \in Nodes, NEW i \in Nat, NEW s \in {"new", "error"}
      PROVE  /\ Attempt(h, n, i, s) \in Handlers
             /\ Attempt(h, n, i, s).cmd = h.cmd
             /\ Attempt(h, n, i, s).stage = s
             /\ Len(Attempt(h, n, i, s).path) = Len(h.path) + 1
  <2>1. Append(h.path, <<n, i>>) \in Seq(Nodes \X Nat)
        /\ Len(Append(h.path, <<n, i>>)) = Len(h.path) + 1
    BY <1>1 DEF Handlers
  <2> QED BY <1>1, <2>1, RouterAssumption DEF Attempt, Handler, Handlers
<1> QED BY <1>1, <1>2, <1>3, <1>4

\* A handler that moves on to another stage is the same in all else.
LEMMA BecomesType ==
    ASSUME TypeOK, NEW h \in calls,
           NEW s \in {"new", "local", "proxy", "ok", "error"}
    PROVE  /\ [h EXCEPT !.stage = s] \in Handlers
           /\ [h EXCEPT !.stage = s].cmd = h.cmd
           /\ [h EXCEPT !.stage = s].path = h.path
           /\ [h EXCEPT !.stage = s].stage = s
           /\ \A g \in Becomes(h, s) :
                (g \in calls /\ g # h) \/ g = [h EXCEPT !.stage = s]
<1>1. h \in Handlers
  BY HandlerType
<1>2. [h EXCEPT !.stage = s] =
        [cmd |-> h.cmd, path |-> h.path, stage |-> s, try |-> h.try]
  BY <1>1 DEF Handlers
<1>3. [h EXCEPT !.stage = s] \in Handlers
  BY <1>1, <1>2 DEF Handlers
<1> QED BY <1>2, <1>3 DEF Becomes

\* So is one that counts an attempt.
LEMMA RetryType ==
    ASSUME TypeOK, NEW h \in calls, h.try < MaxTries
    PROVE  /\ [h EXCEPT !.try = @ + 1] \in Handlers
           /\ [h EXCEPT !.try = @ + 1].cmd = h.cmd
           /\ [h EXCEPT !.try = @ + 1].path = h.path
           /\ [h EXCEPT !.try = @ + 1].stage = h.stage
<1>1. h \in Handlers
  BY HandlerType
<1>2. h.try \in 1 .. MaxTries /\ h.try \in Int /\ h.try + 1 \in 1 .. MaxTries
  BY <1>1, RouterAssumption DEF Handlers
<1>3. [h EXCEPT !.try = @ + 1] =
        [cmd |-> h.cmd, path |-> h.path, stage |-> h.stage, try |-> h.try + 1]
  <2> DEFINE t == h.try + 1
  <2>1. [h EXCEPT !.try = t] =
          [cmd |-> h.cmd, path |-> h.path, stage |-> h.stage, try |-> t]
    <3> HIDE DEF t
    <3> QED BY <1>1 DEF Handlers
  <2> QED BY <2>1
<1>4. [h EXCEPT !.try = @ + 1] \in Handlers
  BY <1>1, <1>2, <1>3 DEF Handlers
<1> QED BY <1>3, <1>4

(***************************************************************************)
(* Types.                                                                  *)
(***************************************************************************)
Fits(h) == h \in Handlers /\ Len(h.path) \in 1 .. (MaxHops + 1)

\* The initial state is well typed.
LEMMA TypeInit == Init => TypeOK
BY DEF Init, TypeOK

\* What is left of the types once handlers are known to fit.
LEMMA CallsFit ==
    ASSUME TypeOK, \A q \in calls' : Fits(q), UNCHANGED <<owner, runs>>,
           clients' \in [Nodes -> SUBSET Nodes],
           answer' \in [Cmds -> {"unsent", "waiting", "ok", "error"}],
           gaveUp' \subseteq Cmds, up' \subseteq Nodes
    PROVE  TypeOK'
BY DEF TypeOK, Fits, Handlers, Slots

\* A handler that moves on still fits.
LEMMA BecomesFits ==
    ASSUME TypeOK, NEW h \in calls,
           NEW s \in {"new", "local", "proxy", "ok", "error"}, NEW q \in Becomes(h, s)
    PROVE  Fits(q)
<1>1. Fits([h EXCEPT !.stage = s])
  BY HandlerType, BecomesType DEF Fits
<1>2. ASSUME q \in calls PROVE Fits(q)
  BY <1>2, HandlerType DEF Fits
<1> QED BY <1>1, <1>2, BecomesType

\* Every step keeps the types: no path grows longer than the hops allow.
LEMMA TypeStep == TypeOK /\ [Next]_vars => TypeOK'
<1> SUFFICES ASSUME TypeOK, [Next]_vars PROVE TypeOK'
  OBVIOUS
<1> USE RouterAssumption
<1>1. /\ \A q \in calls : Fits(q) /\ q.cmd \in Cmds
      /\ clients \in [Nodes -> SUBSET Nodes]
      /\ answer \in [Cmds -> {"unsent", "waiting", "ok", "error"}]
      /\ gaveUp \subseteq Cmds /\ up \subseteq Nodes
      /\ runs \in [Cmds -> Seq(Nodes)]
  BY HandlerType DEF TypeOK, Fits, Handlers
<1>2. ASSUME NEW n \in Nodes, NEW s \in Slots, NEW m \in Nodes, SetOwner(n, s, m)
      PROVE  TypeOK'
  <2>1. owner' \in [Nodes -> [Slots -> {None} \cup
                               [shard : {Shard[k] : k \in Nodes}, ip : Nodes]]]
    BY <1>2 DEF SetOwner, TypeOK
  <2> QED BY <1>2, <2>1 DEF SetOwner, TypeOK, Slots
<1>3. ASSUME NEW n \in Nodes, NEW c \in Cmds, Send(c, n) PROVE TypeOK'
  <2>1. Handler(c, <<<<n, 1>>>>, "new") \in Handlers
        /\ Handler(c, <<<<n, 1>>>>, "new").path = <<<<n, 1>>>>
    <3>1. <<n, 1>> \in Nodes \X Nat
      OBVIOUS
    <3>2. <<<<n, 1>>>> \in Seq(Nodes \X Nat)
      BY <3>1
    <3>3. 1 \in 1 .. MaxTries
      OBVIOUS
    <3> QED BY <3>2, <3>3 DEF Handler, Handlers
  <2>2. Fits(Handler(c, <<<<n, 1>>>>, "new"))
    <3>1. Len(<<<<n, 1>>>>) = 1
      OBVIOUS
    <3>2. 1 \in 1 .. (MaxHops + 1)
      OBVIOUS
    <3>3. Len(Handler(c, <<<<n, 1>>>>, "new").path) = 1
      BY <2>1, <3>1, Zenon
    <3> QED BY <2>1, <3>2, <3>3 DEF Fits
  <2> QED BY <1>1, <1>3, <2>2, CallsFit DEF Send
<1>4. ASSUME NEW n \in Nodes, Stop(n) PROVE TypeOK'
  <2>1. \A h \in calls : Fits([h EXCEPT !.stage = "error"])
    BY <1>1, BecomesType DEF Fits
  <2>2. \A q \in calls' : Fits(q)
    BY <1>1, <1>4, <2>1 DEF Stop
  <2>3. clients' \in [Nodes -> SUBSET Nodes] /\ gaveUp' \subseteq Cmds /\ up' \subseteq Nodes
    BY <1>1, <1>4 DEF Stop
  <2> QED BY <1>1, <1>4, <2>2, <2>3, CallsFit DEF Stop
<1>5. ASSUME NEW h \in calls, Route(h) PROVE TypeOK'
  <2> DEFINE n == At(h)
             o == owner[n][Slot[h.cmd]]
             g == Attempt(h, o.ip, 1, IF o.ip \in up THEN "new" ELSE "error")
  <2>1. n \in Nodes /\ Slot[h.cmd] \in Slots
    BY <1>1, HandlerType DEF Slots
  <2>2. CASE isLocal(n, Slot[h.cmd]) \/ o = None
    <3>1. calls' = Becomes(h, "local") /\ UNCHANGED <<owner, clients, answer, runs, gaveUp, up>>
      BY <1>5, <2>2 DEF Route
    <3> QED BY <1>1, <3>1, BecomesFits, CallsFit
  <2>3. CASE ~(isLocal(n, Slot[h.cmd]) \/ o = None)
    <3>1. /\ Len(h.path) <= MaxHops /\ calls' = Becomes(h, "proxy") \cup {g}
          /\ clients' = [clients EXCEPT ![n] = @ \cup {o.ip}]
          /\ UNCHANGED <<owner, answer, runs, gaveUp, up>>
      BY <1>5, <2>3 DEF Route
    <3>2. o.ip \in Nodes
      BY <2>1, <2>3 DEF TypeOK
    <3> HIDE DEF n, o
    <3>3. Fits(g)
      <4>1. Len(h.path) \in 1 .. MaxHops
        BY <3>1, HandlerType
      <4> QED BY <3>2, <4>1, HandlerType DEF Fits
    <3>4. clients' \in [Nodes -> SUBSET Nodes]
      BY <1>1, <2>1, <3>1, <3>2
    <3> HIDE DEF g
    <3> QED BY <1>1, <3>1, <3>3, <3>4, BecomesFits, CallsFit
  <2> QED BY <2>2, <2>3
<1>6. ASSUME NEW h \in calls, Execute(h) PROVE TypeOK'
  <2>1. runs' \in [Cmds -> Seq(Nodes)]
    <3>1. runs[h.cmd] \in Seq(Nodes) /\ At(h) \in Nodes
      BY <1>1, HandlerType
    <3>2. Append(runs[h.cmd], At(h)) \in Seq(Nodes)
      BY <3>1
    <3>3. runs' = [runs EXCEPT ![h.cmd] = Append(@, At(h))] \/ runs' = runs
      BY <1>6 DEF Execute
    <3> QED BY <1>1, <3>2, <3>3
  <2>2. \A q \in calls' : Fits(q)
    BY <1>6, BecomesFits DEF Execute
  <2> QED BY <1>6, <2>1, <2>2 DEF Execute, TypeOK, Fits, Handlers, Slots
<1>7. ASSUME NEW h \in calls, Timeout(h) PROVE TypeOK'
  BY <1>1, <1>7, BecomesFits, CallsFit DEF Timeout
<1>8. ASSUME NEW h \in calls, Reply(h) PROVE TypeOK'
  BY <1>1, <1>8, CallsFit DEF Reply
<1>9. ASSUME NEW h \in calls, Drop(h) PROVE TypeOK'
  BY <1>1, <1>9, CallsFit DEF Drop
<1>10. ASSUME NEW h \in calls, NEW g \in calls, Return(h, g) PROVE TypeOK'
  BY <1>1, <1>10, BecomesFits, CallsFit DEF Return
<1>11. ASSUME NEW h \in calls, NEW g \in calls, Retry(h, g) PROVE TypeOK'
  <2> DEFINE n == g.path[Len(g.path)][1]
             q == Attempt(h, n, h.try + 1, IF n \in up THEN "new" ELSE "error")
  <2>1. n \in Nodes /\ h.try \in Nat
    BY HandlerType DEF Handlers
  <2>2. /\ calls' = (calls \ {h}) \cup {[h EXCEPT !.try = @ + 1], q}
        /\ gaveUp' = gaveUp \cup {h.cmd} /\ h.try < MaxTries
        /\ UNCHANGED <<owner, clients, answer, runs, up>>
    BY <1>11 DEF Retry
  <2>3. Len(h.path) + 1 \in 1 .. (MaxHops + 1)
    BY <1>11, HandlerType DEF Retry, Answers
  <2> HIDE DEF n
  <2>4. Fits(q)
    BY <2>1, <2>3, HandlerType DEF Fits
  <2>5. Fits([h EXCEPT !.try = @ + 1])
    BY <1>1, <2>2, RetryType DEF Fits
  <2> HIDE DEF q
  <2> QED BY <1>1, <2>2, <2>4, <2>5, CallsFit
<1>12. ASSUME UNCHANGED vars PROVE TypeOK'
  BY <1>1, <1>12, CallsFit DEF vars
<1> QED BY <1>2, <1>3, <1>4, <1>5, <1>6, <1>7, <1>8, <1>9, <1>10, <1>11, <1>12 DEF Next

\* Types: handlers, paths, attempts and slot maps stay within their bounds,
\* however often the maps change and nodes stop.
THEOREM TypeCorrect == Spec => []TypeOK
BY TypeInit, TypeStep, PTL DEF Spec

(***************************************************************************)
(* Executions and answers.                                                 *)
(***************************************************************************)
\* Nothing was sent at first.
LEMMA SafetyInit == Init => SafetyInv
BY DEF Init, SafetyInv, OkWasExecuted, OnlySent, OneAtWork, NotYetExecuted,
       AckedWasExecuted, OnceUnlessRetried

\* Every step keeps answers, executions and handlers in line.
LEMMA SafetyStep == TypeOK /\ SafetyInv /\ [Next]_vars => SafetyInv'
<1> SUFFICES ASSUME TypeOK, SafetyInv, [Next]_vars PROVE SafetyInv'
  OBVIOUS
<1> USE RouterAssumption
<1>1. /\ OkWasExecuted /\ OnlySent /\ OneAtWork /\ NotYetExecuted
      /\ AckedWasExecuted /\ OnceUnlessRetried
  BY DEF SafetyInv
<1>0. /\ \A q \in calls : q.cmd \in Cmds
      /\ answer \in [Cmds -> {"unsent", "waiting", "ok", "error"}]
      /\ runs \in [Cmds -> Seq(Nodes)]
  BY HandlerType DEF TypeOK, Handlers
<1>2. ASSUME NEW n \in Nodes, NEW s \in Slots, NEW m \in Nodes, SetOwner(n, s, m)
      PROVE  SafetyInv'
  BY <1>1, <1>2 DEF SetOwner, SafetyInv, OkWasExecuted, OnlySent, OneAtWork,
     NotYetExecuted, AckedWasExecuted, OnceUnlessRetried
<1>3. ASSUME NEW n \in Nodes, NEW c \in Cmds, Send(c, n) PROVE SafetyInv'
  <2> DEFINE h == Handler(c, <<<<n, 1>>>>, "new")
  <2>1. h.cmd = c /\ h.stage = "new"
    BY DEF Handler
  <2>2. /\ calls' = calls \cup {h} /\ answer[c] = "unsent"
        /\ answer' = [answer EXCEPT ![c] = "waiting"] /\ UNCHANGED <<runs, gaveUp>>
    BY <1>3 DEF Send
  <2> HIDE DEF h
  <2> QED BY <1>0, <1>1, <2>1, <2>2 DEF SafetyInv, OkWasExecuted, OnlySent, OneAtWork,
     NotYetExecuted, AckedWasExecuted, OnceUnlessRetried
<1>4. ASSUME NEW n \in Nodes, Stop(n) PROVE SafetyInv'
  <2>1. \A h \in calls : /\ [h EXCEPT !.stage = "error"].cmd = h.cmd
                          /\ [h EXCEPT !.stage = "error"].stage = "error"
    BY BecomesType
  <2>2. \A q \in calls' : \/ q \in calls
                           \/ \E h \in calls : /\ q.cmd = h.cmd /\ q.stage = "error"
                                                /\ h.cmd \in gaveUp'
    BY <1>4, <2>1 DEF Stop
  <2>3. gaveUp \subseteq gaveUp' /\ UNCHANGED <<answer, runs>>
    BY <1>4 DEF Stop
  <2> QED BY <1>0, <1>1, <2>2, <2>3 DEF SafetyInv, OkWasExecuted, OnlySent, OneAtWork,
     NotYetExecuted, AckedWasExecuted, OnceUnlessRetried
<1>5. ASSUME NEW h \in calls, Route(h) PROVE SafetyInv'
  <2> DEFINE n == At(h)
             o == owner[n][Slot[h.cmd]]
             g == Attempt(h, o.ip, 1, IF o.ip \in up THEN "new" ELSE "error")
  <2>1. UNCHANGED <<answer, runs, gaveUp>> /\ h.stage = "new"
    BY <1>5 DEF Route
  <2>2. CASE isLocal(n, Slot[h.cmd]) \/ o = None
    <3>1. calls' = Becomes(h, "local")
      BY <1>5, <2>2 DEF Route
    <3>2. \A q \in calls' : (q \in calls /\ q # h) \/ q = [h EXCEPT !.stage = "local"]
      BY <3>1, BecomesType
    <3>3. /\ [h EXCEPT !.stage = "local"].cmd = h.cmd
          /\ [h EXCEPT !.stage = "local"].stage = "local"
      BY BecomesType
    <3> QED BY <1>0, <1>1, <2>1, <3>2, <3>3 DEF SafetyInv, OkWasExecuted, OnlySent, OneAtWork,
     NotYetExecuted, AckedWasExecuted, OnceUnlessRetried
  <2>3. CASE ~(isLocal(n, Slot[h.cmd]) \/ o = None)
    <3>1. calls' = Becomes(h, "proxy") \cup {g}
      BY <1>5, <2>3 DEF Route
    <3>2. g.cmd = h.cmd /\ g.stage \in {"new", "error"}
      BY DEF Attempt, Handler
    <3>3. \A q \in calls' : (q \in calls /\ q # h) \/ q = [h EXCEPT !.stage = "proxy"]
                           \/ q = g
      BY <3>1, BecomesType
    <3>4. /\ [h EXCEPT !.stage = "proxy"].cmd = h.cmd
          /\ [h EXCEPT !.stage = "proxy"].stage = "proxy"
      BY BecomesType
    <3> HIDE DEF g
    <3> QED BY <1>0, <1>1, <2>1, <3>2, <3>3, <3>4 DEF SafetyInv, OkWasExecuted, OnlySent, OneAtWork,
     NotYetExecuted, AckedWasExecuted, OnceUnlessRetried
  <2> QED BY <2>2, <2>3
<1>6. ASSUME NEW h \in calls, Execute(h) PROVE SafetyInv'
  <2>0. PICK s \in {"ok", "error"} :
          /\ calls' = Becomes(h, s) /\ h.stage = "local" /\ UNCHANGED <<answer, gaveUp>>
          /\ \/ runs' = [runs EXCEPT ![h.cmd] = Append(@, At(h))]
             \/ runs' = runs /\ s = "error"
    BY <1>6 DEF Execute
  <2>2. \A q \in calls' : (q \in calls /\ q # h) \/ (q.cmd = h.cmd /\ q.stage = s)
    BY <1>6, <2>0, BecomesType
  <2>4. \A q \in calls' : q.stage \in {"new", "local"} /\ q.cmd \notin gaveUp
                          => q.cmd # h.cmd /\ q \in calls
    BY <1>1, <2>0, <2>2 DEF OneAtWork
  <2>6. OneAtWork'
    <3> SUFFICES ASSUME NEW p \in calls', NEW q \in calls', p.cmd = q.cmd,
                        p.cmd \notin gaveUp, p.stage # "proxy", q.stage # "proxy"
                 PROVE  p = q
      BY <2>0 DEF OneAtWork
    <3>1. CASE p \in calls /\ q \in calls
      BY <1>1, <3>1 DEF OneAtWork
    <3>2. ASSUME NEW z \in calls', ~(z \in calls /\ z # h)
          PROVE  z = [h EXCEPT !.stage = s]
      BY <2>0, <3>2 DEF Becomes
    <3>3. CASE p = [h EXCEPT !.stage = s]
      BY <1>1, <2>0, <3>2, <3>3, BecomesType DEF OneAtWork
    <3>4. CASE q = [h EXCEPT !.stage = s]
      BY <1>1, <2>0, <3>2, <3>4, BecomesType DEF OneAtWork
    <3> QED BY <3>1, <3>2, <3>3, <3>4
  <2>7. CASE runs' = [runs EXCEPT ![h.cmd] = Append(@, At(h))]
    <3>1. /\ runs'[h.cmd] # << >> /\ \A c \in Cmds : c # h.cmd => runs'[c] = runs[c]
          /\ runs[h.cmd] = << >> => Len(runs'[h.cmd]) = 1
      <4>1. /\ runs[h.cmd] \in Seq(Nodes) /\ At(h) \in Nodes
            /\ runs'[h.cmd] = Append(runs[h.cmd], At(h))
        BY <1>0, <2>7, HandlerType
      <4>2. /\ Append(runs[h.cmd], At(h)) # << >>
            /\ runs[h.cmd] = << >> => Len(Append(runs[h.cmd], At(h))) = 1
        BY <4>1
      <4>3. \A c \in Cmds : c # h.cmd => runs'[c] = runs[c]
        BY <1>0, <2>7
      <4> QED BY <4>1, <4>2, <4>3
    <3>2. OkWasExecuted' /\ AckedWasExecuted'
      BY <1>0, <1>1, <2>0, <2>2, <3>1 DEF OkWasExecuted, AckedWasExecuted
    <3>3. OnlySent'
      BY <1>0, <1>1, <2>0, <2>2, <3>1 DEF OnlySent
    <3>4. NotYetExecuted'
      BY <1>0, <1>1, <2>0, <2>4, <3>1 DEF NotYetExecuted
    <3>5. OnceUnlessRetried'
      BY <1>0, <1>1, <2>0, <3>1 DEF OnceUnlessRetried, NotYetExecuted
    <3> QED BY <2>6, <3>2, <3>3, <3>4, <3>5 DEF SafetyInv
  <2>8. CASE runs' = runs /\ s = "error"
    <3>1. OkWasExecuted' /\ AckedWasExecuted' /\ OnceUnlessRetried'
      BY <1>0, <1>1, <2>0, <2>2, <2>8 DEF OkWasExecuted, AckedWasExecuted, OnceUnlessRetried
    <3>2. OnlySent' /\ NotYetExecuted'
      BY <1>0, <1>1, <2>0, <2>2, <2>4, <2>8 DEF OnlySent, NotYetExecuted
    <3> QED BY <2>6, <3>1, <3>2 DEF SafetyInv
  <2> QED BY <2>0, <2>7, <2>8
<1>7. ASSUME NEW h \in calls, Timeout(h) PROVE SafetyInv'
  <2>1. /\ UNCHANGED <<answer, runs>> /\ gaveUp' = gaveUp \cup {h.cmd}
        /\ \A q \in calls' : q \in calls \/ (q.cmd = h.cmd /\ q.stage = "error")
    BY <1>7, BecomesType DEF Timeout
  <2> QED BY <1>0, <1>1, <2>1 DEF SafetyInv, OkWasExecuted, OnlySent, OneAtWork,
     NotYetExecuted, AckedWasExecuted, OnceUnlessRetried
<1>8. ASSUME NEW h \in calls, Reply(h) PROVE SafetyInv'
  BY <1>0, <1>1, <1>8 DEF Reply, SafetyInv, OkWasExecuted, OnlySent, OneAtWork,
     NotYetExecuted, AckedWasExecuted, OnceUnlessRetried
<1>9. ASSUME NEW h \in calls, Drop(h) PROVE SafetyInv'
  BY <1>0, <1>1, <1>9 DEF Drop, SafetyInv, OkWasExecuted, OnlySent, OneAtWork,
     NotYetExecuted, AckedWasExecuted, OnceUnlessRetried
<1>10. ASSUME NEW h \in calls, NEW g \in calls, Return(h, g) PROVE SafetyInv'
  <2>1. /\ UNCHANGED <<answer, runs, gaveUp>> /\ h.stage = "proxy" /\ g.cmd = h.cmd
        /\ g.stage \in {"ok", "error"} /\ calls' = Becomes(h, g.stage) \ {g}
    BY <1>10 DEF Return, Answers
  <2> DEFINE r == [h EXCEPT !.stage = g.stage]
  <2>2. r.cmd = h.cmd /\ r.stage = g.stage
    BY <2>1, BecomesType
  <2>3. \A q \in calls' : (q \in calls /\ q # g) \/ q = r
    BY <2>1 DEF Becomes
  <2> HIDE DEF r
  <2> QED BY <1>0, <1>1, <2>1, <2>2, <2>3 DEF SafetyInv, OkWasExecuted, OnlySent, OneAtWork,
     NotYetExecuted, AckedWasExecuted, OnceUnlessRetried
<1>11. ASSUME NEW h \in calls, NEW g \in calls, Retry(h, g) PROVE SafetyInv'
  <2> DEFINE n == g.path[Len(g.path)][1]
             a == Attempt(h, n, h.try + 1, IF n \in up THEN "new" ELSE "error")
             r == [h EXCEPT !.try = @ + 1]
  <2>1. /\ UNCHANGED <<answer, runs>> /\ gaveUp' = gaveUp \cup {h.cmd}
        /\ calls' = (calls \ {h}) \cup {r, a} /\ h.stage = "proxy" /\ h.try < MaxTries
    BY <1>11 DEF Retry
  <2>2. r.cmd = h.cmd /\ r.stage = "proxy"
    BY <2>1, RetryType
  <2>3. a.cmd = h.cmd /\ a.stage \in {"new", "error"}
    BY DEF Attempt, Handler
  <2> HIDE DEF a, r
  <2> QED BY <1>0, <1>1, <2>1, <2>2, <2>3 DEF SafetyInv, OkWasExecuted, OnlySent, OneAtWork,
     NotYetExecuted, AckedWasExecuted, OnceUnlessRetried
<1>12. ASSUME UNCHANGED vars PROVE SafetyInv'
  BY <1>1, <1>12 DEF vars, SafetyInv, OkWasExecuted, OnlySent, OneAtWork,
     NotYetExecuted, AckedWasExecuted, OnceUnlessRetried
<1> QED BY <1>2, <1>3, <1>4, <1>5, <1>6, <1>7, <1>8, <1>9, <1>10, <1>11, <1>12 DEF Next

\* A client that is told OK had its command executed on some node, through any
\* number of hops, retries and stops.
THEOREM AnswersAreTrue == Spec => []AckedWasExecuted
<1>1. SafetyInv => AckedWasExecuted
  BY DEF SafetyInv
<1> QED BY <1>1, TypeInit, TypeStep, SafetyInit, SafetyStep, PTL DEF Spec

\* A command is executed twice only if go-redis gave an attempt up: slot maps
\* that contradict each other do not repeat it.
THEOREM ExecutedOnce == Spec => []OnceUnlessRetried
<1>1. SafetyInv => OnceUnlessRetried
  BY DEF SafetyInv
<1> QED BY <1>1, TypeInit, TypeStep, SafetyInit, SafetyStep, PTL DEF Spec
=============================================================================
