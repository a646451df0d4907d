--------------------------- MODULE ScriptsProofs ---------------------------
(***************************************************************************)
(* The handlers and the scripts, for every input, script and database.     *)
(***************************************************************************)
EXTENDS Scripts, FSMProofs

(***************************************************************************)
(* Commands that the handlers accept.                                      *)
(***************************************************************************)
\* A command in the log that every replica can apply.
Applicable(cmd) == ~Malformed(cmd) /\ ~Panics(cmd) /\ Decode(cmd) \in CommandSpace

\* The rest of the arguments, without the first.
LEMMA TailOfArguments ==
    ASSUME NEW a \in Seq(Arguments), a # << >>
    PROVE  /\ Tail(a) \in Seq(Arguments) /\ Len(a) \in Nat \ {0}
           /\ Len(Tail(a)) = Len(a) - 1
           /\ \A i \in 1 .. (Len(a) - 1) : Tail(a)[i] = a[i + 1]
OBVIOUS

\* The fields of a command.
LEMMA CmdFields ==
    ASSUME NEW op, NEW k, NEW a
    PROVE  /\ Cmd(op, k, a).op = op /\ Cmd(op, k, a).key = k
           /\ Cmd(op, k, a).args = a
           /\ Cmd(op, k, a).ttl = 0 /\ Cmd(op, k, a).cond = "" /\ Cmd(op, k, a).get = FALSE
BY DEF Cmd

\* The names the handlers know, and how many arguments each lets pass.
LEMMA Arities ==
    ASSUME NEW in, ArityOK(in), NEW n, n = Len(in.args)
    PROVE  /\ \/ in.name \in {"SET", "SETEX", "EXPIRE", "DEL", "UNLINK", "MSET", "FLUSHDB",
                              "GETSET", "APPEND", "HSET", "HSETNX", "INCR", "DECR", "PERSIST",
                              "LPOP", "RPOP", "SPOP"}
              \/ in.name \in CountOps \cup WordOps \cup BoundOps
           /\ in.name = "SET" => n >= 2
           /\ in.name = "SETEX" => n = 3
           /\ in.name = "EXPIRE" => n = 2
           /\ in.name \in {"DEL", "UNLINK"} => n >= 1
           /\ in.name = "MSET" => n >= 2 /\ n % 2 = 0
           /\ in.name \in {"GETSET", "APPEND"} \cup CountOps => n = 2
           /\ in.name \in {"HSET", "HSETNX"} => n >= 3 /\ n % 2 = 1
           /\ in.name \in {"INCR", "DECR", "PERSIST"} => n = 1
           /\ in.name \in {"LPOP", "RPOP", "SPOP"} => n \in {1, 2}
           /\ in.name \in WordOps => n >= 2
           /\ in.name \in BoundOps => n = 3
<1> USE DEF ArityOK, Arity, KeyArity, StringArity, HashArity, ListArity, SetArity, CountOps,
            WordOps, BoundOps
<1>1. \/ in.name \in {"SET", "SETEX", "EXPIRE", "DEL", "UNLINK", "MSET", "FLUSHDB",
                      "GETSET", "APPEND", "HSET", "HSETNX", "INCR", "DECR", "PERSIST",
                      "LPOP", "RPOP", "SPOP"}
      \/ in.name \in CountOps \cup WordOps \cup BoundOps
  OBVIOUS
<1>2. in.name = "SET" => n >= 2
  OBVIOUS
<1>3. in.name = "SETEX" => n = 3
  OBVIOUS
<1>4. in.name = "EXPIRE" => n = 2
  OBVIOUS
<1>5. in.name \in {"DEL", "UNLINK"} => n >= 1
  OBVIOUS
<1>6. in.name = "MSET" => n >= 2 /\ n % 2 = 0
  OBVIOUS
<1>7. in.name \in {"GETSET", "APPEND"} \cup CountOps => n = 2
  OBVIOUS
<1>8. in.name \in {"HSET", "HSETNX"} => n >= 3 /\ n % 2 = 1
  <2>1. in.name \in {"HSET", "HSETNX"} => (n >= 3 /\ n % 2 = 1) \/ n = 3
    OBVIOUS
  <2>2. 3 >= 3 /\ 3 % 2 = 1
    OBVIOUS
  <2> QED BY <2>1, <2>2, Zenon
<1>9. in.name \in {"INCR", "DECR", "PERSIST"} => n = 1
  OBVIOUS
<1>10. in.name \in {"LPOP", "RPOP", "SPOP"} => n \in {1, 2}
  OBVIOUS
<1>11. in.name \in WordOps => n >= 2
  OBVIOUS
<1>12. in.name \in BoundOps => n = 3
  OBVIOUS
<1> QED BY <1>1, <1>2, <1>3, <1>4, <1>5, <1>6, <1>7, <1>8, <1>9, <1>10, <1>11, <1>12

\* The commands whose handler takes the first argument for the key and passes on
\* the others.
Plain == {"GETSET", "APPEND", "HSET", "HSETNX", "INCR", "DECR", "PERSIST", "LPOP", "RPOP",
          "SPOP"} \cup CountOps \cup WordOps \cup BoundOps

\* What their handlers send.
LEMMA PlainHandle ==
    ASSUME NEW in, in.name \in Plain, NEW ms
    PROVE  Handle(in, ms) = Cmd(in.name, in.args[1], Tail(in.args))
BY DEF Handle, Plain, CountOps, WordOps, BoundOps

\* Arguments that come in pairs.
Paired(a) == Len(a) >= 2 /\ Len(a) % 2 = 0

\* The pairs of an even number of arguments.
LEMMA PairsOf ==
    ASSUME NEW a \in Seq(Arguments), Len(a) % 2 = 0, NEW A, NEW B,
           \A i \in 1 .. Len(a) : i % 2 = 1 => a[i] \in A,
           \A i \in 1 .. Len(a) : i % 2 = 0 => a[i] \in B
    PROVE  LET pairs == [i \in 1 .. (Len(a) \div 2) |-> <<a[2 * i - 1], a[2 * i]>>]
           IN  /\ pairs \in Seq(A \X B)
               /\ DOMAIN pairs = 1 .. (Len(a) \div 2)
               /\ Len(a) >= 2 => pairs # << >>
<1> DEFINE h     == Len(a) \div 2
           pairs == [i \in 1 .. h |-> <<a[2 * i - 1], a[2 * i]>>]
<1>1. Len(a) \in Nat
  OBVIOUS
<1>2. h \in Nat /\ 2 * h = Len(a)
  BY <1>1
<1> HIDE DEF h
<1>3. ASSUME NEW i \in 1 .. h PROVE <<a[2 * i - 1], a[2 * i]>> \in A \X B
  <2>1. 2 * i - 1 \in 1 .. Len(a) /\ 2 * i \in 1 .. Len(a)
    BY <1>2
  <2>2. (2 * i - 1) % 2 = 1 /\ (2 * i) % 2 = 0
    OBVIOUS
  <2> QED BY <2>1, <2>2
<1>4. pairs \in [1 .. h -> A \X B]
  BY <1>3
<1>5. DOMAIN pairs = 1 .. h
  OBVIOUS
<1>6. Len(a) >= 2 => 1 \in DOMAIN pairs
  BY <1>1, <1>2
<1> HIDE DEF pairs
<1>7. pairs \in Seq(A \X B)
  BY <1>2, <1>4
<1>8. Len(a) >= 2 => pairs # << >>
  BY <1>6, <1>7
<1> QED BY <1>5, <1>7, <1>8 DEF pairs, h

(***************************************************************************)
(* Every accepted input, family by family.                                 *)
(***************************************************************************)
\* What InputsAssumption says of a command of the plain form.
LEMMA PlainInput ==
    ASSUME NEW in \in Inputs, Accepts(in), in.name \in Plain
    PROVE  LET a == in.args
               b == Tail(in.args)
           IN  /\ a \in Seq(Arguments) /\ a # << >> /\ a[1] \in Keys
               /\ b \in Seq(Arguments) /\ Len(b) = Len(a) - 1 /\ Len(a) \in Nat \ {0}
               /\ \A i \in 1 .. Len(b) : b[i] = a[i + 1]
               /\ in.name \in StringOps \cup CountOps /\ Len(a) >= 2 => b[1] \in Words \cup Int64
               /\ in.name \in {"HSET", "HSETNX"} \cup WordOps => b \in Seq(Words)
               /\ in.name = "LREM" /\ Len(a) = 3 => b[2] \in Words
<1> DEFINE a == in.args
           b == Tail(in.args)
           n == Len(a)
<1>1. a \in Seq(Arguments)
  BY InputsAssumption
<1>2. n \in Nat
  BY <1>1
<1>3. /\ \A i \in Positions(in).keys : a[i] \in Keys
      /\ \A i \in Positions(in).texts : a[i] \in Words \cup Int64
      /\ \A i \in Positions(in).words : a[i] \in Words
  BY InputsAssumption
<1>4. n >= 1
  <2>1. ArityOK(in)
    BY DEF Accepts
  <2>2. \/ in.name \in {"GETSET", "APPEND"} \cup CountOps /\ n = 2
        \/ in.name \in {"HSET", "HSETNX"} /\ n >= 3
        \/ in.name \in {"INCR", "DECR", "PERSIST"} /\ n = 1
        \/ in.name \in {"LPOP", "RPOP", "SPOP"} /\ n \in {1, 2}
        \/ in.name \in WordOps /\ n >= 2
        \/ in.name \in BoundOps /\ n = 3
    BY <2>1, Arities DEF Plain
  <2>3. n = 2 \/ n >= 3 \/ n = 1 \/ n \in {1, 2} \/ n >= 2 \/ n = 3
    BY <2>2, Zenon
  <2> HIDE DEF n
  <2> QED BY <1>2, <2>3
<1>5. a # << >>
  BY <1>1, <1>4
<1> HIDE DEF a
<1>6. b \in Seq(Arguments) /\ Len(b) = n - 1 /\ \A i \in 1 .. Len(b) : b[i] = a[i + 1]
  BY <1>1, <1>5, TailOfArguments DEF a
<1> HIDE DEF b
<1>7. a[1] \in Keys
  <2>1. 1 \in Positions(in).keys
    BY <1>2, <1>4 DEF Positions, Plain, CountOps, WordOps, BoundOps, a
  <2> QED BY <1>3, <2>1
<1>8. ASSUME in.name \in StringOps \cup CountOps, n >= 2 PROVE b[1] \in Words \cup Int64
  <2>1. 2 \in Positions(in).texts
    BY <1>2, <1>8 DEF Positions, StringOps, CountOps, a
  <2>2. 1 \in 1 .. Len(b) /\ 1 + 1 = 2
    BY <1>2, <1>6, <1>8
  <2> QED BY <1>3, <1>6, <2>1, <2>2
<1>9. ASSUME in.name \in {"HSET", "HSETNX"} \cup WordOps PROVE b \in Seq(Words)
  <2>1. ASSUME NEW i \in 1 .. Len(b) PROVE b[i] \in Words
    <3>1. i + 1 \in (1 .. n) \ {1}
      BY <1>2, <1>6
    <3>2. i + 1 \in Positions(in).words
      BY <1>9, <3>1 DEF Positions, WordOps, a
    <3> QED BY <1>3, <1>6, <3>2
  <2> QED BY <1>6, <2>1
<1>10. ASSUME in.name = "LREM", n = 3 PROVE b[2] \in Words
  <2>1. 3 \in Positions(in).words
    BY <1>2, <1>10 DEF Positions, WordOps, a
  <2>2. 2 \in 1 .. Len(b) /\ 2 + 1 = 3
    BY <1>2, <1>6, <1>10
  <2> QED BY <1>3, <1>6, <2>1, <2>2
<1>11. n \in Nat \ {0}
  <2> HIDE DEF n
  <2> QED BY <1>2, <1>4
<1> QED BY <1>1, <1>5, <1>6, <1>7, <1>8, <1>9, <1>10, <1>11 DEF a, b

\* What is left to show of a command whose operation is known.
LEMMA AppliesIf ==
    ASSUME NEW c, ~Malformed(c), ~Panics(c), NEW dec, dec = Decode(c),
           \/ dec \in SetCommands \cup TextCommands \cup MSetCommands \cup DelCommands
           \/ dec \in FlushCommands \cup IncrCommands \cup ExpireCommands \cup PersistCommands
           \/ dec \in HSetCommands \cup AddCommands \cup RemoveCommands \cup PopCommands
           \/ dec \in LTrimCommands \cup LRemCommands
    PROVE  Applicable(c)
<1>1. dec \in CommandSpace
  BY DEF CommandSpace
<1> QED BY <1>1 DEF Applicable

\* GETSET and APPEND: one text.
LEMMA TextApplies ==
    ASSUME NEW c, c.op \in {"GETSET", "APPEND"}, c.key \in Keys, c.args # << >>,
           c.args[1] \in Words \cup Int64
    PROVE  Applicable(c)
<1>1. ~Malformed(c) /\ ~Panics(c)
  BY DEF Malformed, Panics, StoreOps, StringOps, PairOps, CountOps, BoundOps
<1>2. Decode(c) = [op |-> c.op, key |-> c.key, val |-> <<c.args[1]>>]
  BY DEF Decode, CountOps, WordOps
<1>3. <<c.args[1]>> \in Texts
  BY DEF Texts
<1>4. Decode(c) \in TextCommands
  BY <1>2, <1>3 DEF TextCommands
<1> QED BY <1>1, <1>4, AppliesIf

\* INCR, DECR, INCRBY and DECRBY: no text, or one.
LEMMA CountApplies ==
    ASSUME NEW c, c.op \in {"INCR", "DECR"} \cup CountOps, c.key \in Keys,
           c.op \in CountOps => c.args # << >> /\ c.args[1] \in Words \cup Int64
    PROVE  Applicable(c)
<1>1. ~Malformed(c) /\ ~Panics(c)
  BY DEF Malformed, Panics, StoreOps, StringOps, PairOps, CountOps, BoundOps
<1>2. CASE c.op \in CountOps
  <2>1. Decode(c) = [op |-> c.op, key |-> c.key, by |-> <<c.args[1]>>]
    BY <1>2 DEF Decode, CountOps, WordOps
  <2>2. <<c.args[1]>> \in Texts
    BY <1>2 DEF Texts
  <2>3. Decode(c) \in IncrCommands
    BY <1>2, <2>1, <2>2 DEF IncrCommands, CountOps
  <2> QED BY <1>1, <2>3, AppliesIf
<1>3. CASE c.op \in {"INCR", "DECR"}
  <2>1. Decode(c) = [op |-> c.op, key |-> c.key, by |-> <<1>>]
    BY <1>3 DEF Decode, CountOps, WordOps
  <2>2. Decode(c) \in IncrCommands
    BY <1>3, <2>1 DEF IncrCommands
  <2> QED BY <1>1, <2>2, AppliesIf
<1> QED BY <1>2, <1>3

\* HSET and HSETNX: fields and values in pairs.
LEMMA HashApplies ==
    ASSUME NEW c, c.op \in {"HSET", "HSETNX"}, c.key \in Keys, c.args \in Seq(Words),
           Paired(c.args)
    PROVE  Applicable(c)
<1> DEFINE b     == c.args
           pairs == [i \in 1 .. (Len(b) \div 2) |-> <<b[2 * i - 1], b[2 * i]>>]
<1>0. Len(b) >= 2 /\ Len(b) % 2 = 0
  BY DEF Paired
<1>1. ~Malformed(c) /\ ~Panics(c)
  BY <1>0 DEF Malformed, Panics, StoreOps, StringOps, PairOps, CountOps, BoundOps
<1>2. Decode(c) = [op |-> c.op, key |-> c.key, pairs |-> pairs]
  BY DEF Decode, CountOps, WordOps
<1>3. pairs \in Seq(Words \X Words) /\ pairs # << >>
  <2>1. /\ \A i \in 1 .. Len(b) : i % 2 = 1 => b[i] \in Words
        /\ \A i \in 1 .. Len(b) : i % 2 = 0 => b[i] \in Words
    OBVIOUS
  <2>2. b \in Seq(Arguments)
    BY DEF Arguments
  <2> QED BY <1>0, <2>1, <2>2, PairsOf, Zenon
<1> HIDE DEF pairs
<1>4. Decode(c) \in HSetCommands
  BY <1>2, <1>3 DEF HSetCommands
<1> QED BY <1>1, <1>4, AppliesIf

\* HDEL, SREM, SADD and the pushes: words, at least one.
LEMMA WordsApply ==
    ASSUME NEW c, c.op \in WordOps, c.key \in Keys, c.args \in Seq(Words), c.args # << >>
    PROVE  Applicable(c)
<1>1. ~Malformed(c) /\ ~Panics(c)
  BY DEF Malformed, Panics, StoreOps, StringOps, PairOps, CountOps, BoundOps, WordOps
<1>2. Decode(c) = [op |-> c.op, key |-> c.key, words |-> c.args]
  BY DEF Decode, CountOps, WordOps
<1>3. Decode(c) \in AddCommands \cup RemoveCommands
  BY <1>2 DEF AddCommands, RemoveCommands, WordOps
<1> QED BY <1>1, <1>3, AppliesIf

\* A number that is not one is taken for 0.
LEMMA AtoiIsInt == ASSUME NEW x PROVE Atoi(x) \in Int
BY ClockAssumption DEF Atoi, IsInt, Int64

\* The pops: any argument will do.
LEMMA PopsApply ==
    ASSUME NEW c, c.op \in {"LPOP", "RPOP", "SPOP"}, c.key \in Keys
    PROVE  Applicable(c)
<1> DEFINE b    == c.args
           n    == IF IsInt(b[1]) THEN b[1] ELSE -1
           z    == Atoi(b[1])
           pop  == IF b = << >> THEN << >> ELSE <<n>>
           spop == IF b = << >> THEN << >> ELSE <<z>>
<1>1. ~Malformed(c) /\ ~Panics(c)
  BY DEF Malformed, Panics, StoreOps, StringOps, PairOps, CountOps, BoundOps
<1>2. /\ c.op \in {"LPOP", "RPOP"} => Decode(c) = [op |-> c.op, key |-> c.key, count |-> pop]
      /\ c.op = "SPOP" => Decode(c) = [op |-> c.op, key |-> c.key, count |-> spop]
  BY DEF Decode, CountOps, WordOps
<1>3. n \in Int /\ z \in Int
  BY ClockAssumption, AtoiIsInt DEF IsInt, Int64
<1> HIDE DEF n, z
<1>4. pop \in Seq(Int) /\ spop \in Seq(Int)
  BY <1>3
<1> HIDE DEF pop, spop
<1>5. Decode(c) \in PopCommands
  BY <1>2, <1>4 DEF PopCommands
<1> QED BY <1>1, <1>5, AppliesIf

\* LTRIM and LREM: two arguments.
LEMMA BoundsApply ==
    ASSUME NEW c, c.op \in BoundOps, c.key \in Keys, ~(Len(c.args) < 2),
           c.op = "LREM" => c.args[2] \in Words
    PROVE  Applicable(c)
<1> DEFINE b == c.args
           p == Atoi(b[1])
           q == Atoi(b[2])
<1>1. ~Malformed(c) /\ ~Panics(c)
  BY DEF Malformed, Panics, StoreOps, StringOps, PairOps, CountOps, BoundOps
<1>2. p \in Int /\ q \in Int
  BY AtoiIsInt
<1>3. CASE c.op = "LTRIM"
  <2>1. Decode(c) = [op |-> "LTRIM", key |-> c.key, start |-> p, stop |-> q]
    BY <1>3 DEF Decode, CountOps, WordOps
  <2> HIDE DEF p, q
  <2>2. Decode(c) \in LTrimCommands
    BY <1>2, <2>1 DEF LTrimCommands
  <2> QED BY <1>1, <2>2, AppliesIf
<1>4. CASE c.op = "LREM"
  <2>1. Decode(c) = [op |-> "LREM", key |-> c.key, limit |-> p, val |-> b[2]]
    BY <1>4 DEF Decode, CountOps, WordOps
  <2> HIDE DEF p, q
  <2>2. Decode(c) \in LRemCommands
    BY <1>2, <1>4, <2>1 DEF LRemCommands
  <2> QED BY <1>1, <2>2, AppliesIf
<1> QED BY <1>3, <1>4 DEF BoundOps

\* PERSIST: the key.
LEMMA PersistApplies ==
    ASSUME NEW c, c.op = "PERSIST", c.key \in Keys
    PROVE  Applicable(c)
<1>1. ~Malformed(c) /\ ~Panics(c)
  BY DEF Malformed, Panics, StoreOps, StringOps, PairOps, CountOps, BoundOps
<1>2. Decode(c) = [op |-> "PERSIST", key |-> c.key]
  BY DEF Decode, CountOps, WordOps
<1>3. Decode(c) \in PersistCommands
  BY <1>2 DEF PersistCommands
<1> QED BY <1>1, <1>3, AppliesIf

\* The commands of the plain form are applicable.
LEMMA PlainApplies ==
    ASSUME NEW in \in Inputs, Accepts(in), in.name \in Plain, NEW ms
    PROVE  Applicable(Handle(in, ms))
<1> DEFINE op == in.name
           a  == in.args
           k  == a[1]
           b  == Tail(a)
           m  == Len(b)
           n  == Len(a)
           c  == Handle(in, ms)
<1>1. c = Cmd(op, k, b)
  BY PlainHandle
<1>2. /\ k \in Keys /\ b \in Seq(Arguments) /\ m = n - 1 /\ n \in Nat \ {0}
      /\ op \in StringOps \cup CountOps /\ n >= 2 => b[1] \in Words \cup Int64
      /\ op \in {"HSET", "HSETNX"} \cup WordOps => b \in Seq(Words)
      /\ op = "LREM" /\ n = 3 => b[2] \in Words
  BY PlainInput
<1>3. ArityOK(in)
  BY DEF Accepts
<1>4. /\ op \in {"GETSET", "APPEND"} \cup CountOps => n = 2
      /\ op \in {"HSET", "HSETNX"} => n >= 3 /\ n % 2 = 1
      /\ op \in WordOps => n >= 2
      /\ op \in BoundOps => n = 3
  BY <1>3, Arities
<1>5. op \in Plain
  OBVIOUS
<1> HIDE DEF op, k, b, c, n
<1>6. c.op = op /\ c.key = k /\ c.args = b
  BY <1>1 DEF Cmd
<1>7. CASE op \in {"GETSET", "APPEND"} \cup CountOps
  <2>1. n = 2
    BY <1>4, <1>7
  <2>2. m = 1 /\ b # << >>
    BY <1>2, <2>1
  <2>3. b[1] \in Words \cup Int64
    BY <1>2, <1>7, <2>1 DEF StringOps
  <2>4. CASE op \in {"GETSET", "APPEND"}
    BY <1>2, <1>6, <2>2, <2>3, <2>4, TextApplies DEF c
  <2>5. CASE op \in CountOps
    BY <1>2, <1>6, <2>2, <2>3, <2>5, CountApplies DEF c
  <2> QED BY <1>7, <2>4, <2>5
<1>8. CASE op \in {"HSET", "HSETNX"}
  <2>1. n >= 3 /\ n % 2 = 1
    BY <1>4, <1>8
  <2>2. m >= 2 /\ m % 2 = 0
    BY <1>2, <2>1
  <2>4. Paired(c.args)
    BY <1>6, <2>2 DEF Paired
  <2>5. c.op \in {"HSET", "HSETNX"} /\ c.key \in Keys /\ c.args \in Seq(Words)
    BY <1>2, <1>6, <1>8
  <2>6. Applicable(c)
    BY <2>4, <2>5, HashApplies
  <2> QED BY <2>6 DEF c
<1>9. CASE op \in {"INCR", "DECR"}
  BY <1>2, <1>6, <1>9, CountApplies DEF c, CountOps
<1>10. CASE op = "PERSIST"
  BY <1>2, <1>6, <1>10, PersistApplies DEF c
<1>11. CASE op \in {"LPOP", "RPOP", "SPOP"}
  BY <1>2, <1>6, <1>11, PopsApply DEF c
<1>12. CASE op \in WordOps
  <2>1. n >= 2
    BY <1>4, <1>12
  <2>2. b \in Seq(Words)
    BY <1>2, <1>12
  <2>3. b # << >>
    BY <1>2, <2>1
  <2> QED BY <1>2, <1>6, <1>12, <2>2, <2>3, WordsApply DEF c
<1>13. CASE op \in BoundOps
  <2>1. n = 3
    BY <1>4, <1>13
  <2>2. ~(Len(b) < 2)
    BY <1>2, <2>1
  <2>3. op = "LREM" => b[2] \in Words
    BY <1>2, <2>1
  <2> QED BY <1>2, <1>6, <1>13, <2>2, <2>3, BoundsApply DEF c
<1> QED BY <1>5, <1>7, <1>8, <1>9, <1>10, <1>11, <1>12, <1>13 DEF Plain, c

\* DEL, UNLINK and FLUSHDB.
LEMMA DeleteApplies ==
    ASSUME NEW in \in Inputs, Accepts(in), in.name \in {"DEL", "UNLINK", "FLUSHDB"}, NEW ms
    PROVE  Applicable(Handle(in, ms))
<1> DEFINE a == in.args
           c == Handle(in, ms)
<1>1. CASE in.name = "FLUSHDB"
  <2>1. c = Cmd("FLUSHDB", None, << >>)
    BY <1>1 DEF Handle
  <2> HIDE DEF c
  <2>2. c.op = "FLUSHDB"
    BY <2>1 DEF Cmd
  <2>3. ~Malformed(c) /\ ~Panics(c)
    BY <2>2 DEF Malformed, Panics, StoreOps, StringOps, PairOps, CountOps, BoundOps
  <2>4. Decode(c) = [op |-> "FLUSHDB"]
    BY <2>2 DEF Decode, CountOps, WordOps
  <2>5. Decode(c) \in FlushCommands
    BY <2>4 DEF FlushCommands
  <2> QED BY <2>3, <2>5, AppliesIf DEF c
<1>2. CASE in.name \in {"DEL", "UNLINK"}
  <2>1. c = Cmd("DEL", None, a)
    BY <1>2 DEF Handle
  <2>2. a \in Seq(Arguments)
    BY InputsAssumption
  <2>3. \A i \in 1 .. Len(a) : a[i] \in Keys
    BY <1>2, InputsAssumption DEF Positions
  <2> HIDE DEF c, a
  <2>4. c.op = "DEL" /\ c.key = None /\ c.args = a
    BY <2>1 DEF Cmd
  <2>5. ~Malformed(c) /\ ~Panics(c)
    BY <2>4 DEF Malformed, Panics, StoreOps, StringOps, PairOps, CountOps, BoundOps
  <2>6. Decode(c) = [op |-> "DEL", key |-> None, keys |-> a]
    BY <2>4 DEF Decode, CountOps, WordOps
  <2>7. a \in Seq(Keys)
    BY <2>2, <2>3
  <2>8. Decode(c) \in DelCommands
    BY <2>6, <2>7 DEF DelCommands
  <2> QED BY <2>5, <2>8, AppliesIf DEF c
<1> QED BY <1>1, <1>2

\* MSET: keys and texts in pairs.
LEMMA MSetApplies ==
    ASSUME NEW in \in Inputs, Accepts(in), in.name = "MSET", NEW ms
    PROVE  Applicable(Handle(in, ms))
<1> DEFINE a     == in.args
           c     == Handle(in, ms)
           T     == Words \cup Int64
           pairs == [i \in 1 .. (Len(a) \div 2) |-> <<a[2 * i - 1], a[2 * i]>>]
           texts == [i \in DOMAIN pairs |-> <<pairs[i][1], <<pairs[i][2]>>>>]
<1>1. c = Cmd("MSET", None, a)
  BY DEF Handle
<1>2. a \in Seq(Arguments)
  BY InputsAssumption
<1>3. /\ \A i \in Positions(in).keys : a[i] \in Keys
      /\ \A i \in Positions(in).texts : a[i] \in T
  BY InputsAssumption
<1>4. /\ \A i \in 1 .. Len(a) : i % 2 = 1 => a[i] \in Keys
      /\ \A i \in 1 .. Len(a) : i % 2 = 0 => a[i] \in T
  BY <1>3 DEF Positions
<1>5. ArityOK(in)
  BY DEF Accepts
<1>6. Len(a) % 2 = 0
  BY <1>5, Arities
<1> HIDE DEF c, a, T
<1>7. c.op = "MSET" /\ c.args = a
  BY <1>1 DEF Cmd
<1>8. ~Malformed(c) /\ ~Panics(c)
  BY <1>6, <1>7 DEF Malformed, Panics, StoreOps, StringOps, PairOps, CountOps, BoundOps
<1>9. Decode(c) = [op |-> "MSET", pairs |-> texts]
  BY <1>7 DEF Decode, CountOps, WordOps
<1>10. pairs \in Seq(Keys \X T)
  BY <1>2, <1>4, <1>6, PairsOf, Zenon
<1> HIDE DEF pairs
<1>11. texts \in Seq(Keys \X Texts)
  <2>1. DOMAIN pairs = 1 .. Len(pairs) /\ Len(pairs) \in Nat
    BY <1>10
  <2>2. ASSUME NEW i \in DOMAIN pairs PROVE <<pairs[i][1], <<pairs[i][2]>>>> \in Keys \X Texts
    <3>1. pairs[i][1] \in Keys /\ pairs[i][2] \in T
      BY <1>10, <2>1
    <3>2. <<pairs[i][2]>> \in Texts
      BY <3>1 DEF Texts, T
    <3> QED BY <3>1, <3>2
  <2>3. texts \in [1 .. Len(pairs) -> Keys \X Texts]
    BY <2>1, <2>2
  <2> QED BY <2>1, <2>3
<1> HIDE DEF texts
<1>12. Decode(c) \in MSetCommands
  BY <1>9, <1>11 DEF MSetCommands
<1> QED BY <1>8, <1>12, AppliesIf DEF c

\* What a command SET is decoded to.
LEMMA SetDecoded ==
    ASSUME NEW c, c.op = "SET", NEW v \in Words \cup Int64, c.args = <<v>>
    PROVE  /\ ~Malformed(c) /\ ~Panics(c) /\ <<v>> \in Texts
           /\ Decode(c) = [op |-> "SET", key |-> c.key, val |-> <<v>>, ttl |-> c.ttl,
                           cond |-> c.cond, get |-> c.get]
<1>1. ~Malformed(c) /\ ~Panics(c)
  BY DEF Malformed, Panics, StoreOps, StringOps, PairOps, CountOps, BoundOps
<1>2. Decode(c) = [op |-> "SET", key |-> c.key, val |-> <<v>>, ttl |-> c.ttl, cond |-> c.cond,
                   get |-> c.get]
  BY DEF Decode, CountOps, WordOps
<1>3. <<v>> \in Texts
  BY DEF Texts
<1> QED BY <1>1, <1>2, <1>3

\* A record of a command SET.
LEMMA SetRecord ==
    ASSUME NEW k \in Keys, NEW val \in Texts, NEW ttl \in Int, NEW cond \in {"", "NX", "XX"},
           NEW get \in BOOLEAN
    PROVE  [op |-> "SET", key |-> k, val |-> val, ttl |-> ttl, cond |-> cond, get |-> get]
              \in SetCommands
BY DEF SetCommands

\* A command SET with a key, a text and a lifetime.
LEMMA SetIsApplicable ==
    ASSUME NEW c, c.op = "SET", c.key \in Keys, NEW v \in Words \cup Int64, c.args = <<v>>,
           c.ttl \in Int, c.cond \in {"", "NX", "XX"}, c.get \in BOOLEAN
    PROVE  Applicable(c)
<1>1. ~Malformed(c) /\ ~Panics(c)
  BY SetDecoded, Zenon
<1>2. Decode(c) = [op |-> "SET", key |-> c.key, val |-> <<v>>, ttl |-> c.ttl, cond |-> c.cond,
                   get |-> c.get]
  BY SetDecoded, Zenon
<1>3. <<v>> \in Texts
  BY SetDecoded, Zenon
<1>4. Decode(c) \in SetCommands
  BY <1>2, <1>3, SetRecord, Zenon
<1> QED BY <1>1, <1>4, AppliesIf, Zenon

\* A command EXPIRE with a key and a lifetime.
LEMMA ExpireIsApplicable ==
    ASSUME NEW c, c.op = "EXPIRE", c.key \in Keys, c.ttl \in Int
    PROVE  Applicable(c)
<1>1. ~Malformed(c) /\ ~Panics(c)
  BY DEF Malformed, Panics, StoreOps, StringOps, PairOps, CountOps, BoundOps
<1>2. Decode(c) = [op |-> "EXPIRE", key |-> c.key, ttl |-> c.ttl]
  BY DEF Decode, CountOps, WordOps
<1>3. Decode(c) \in ExpireCommands
  BY <1>2 DEF ExpireCommands
<1> QED BY <1>1, <1>3, AppliesIf

\* Seconds in milliseconds, within 64 bits.
LEMMA ScaledType ==
    ASSUME NEW n, IsInt(n)
    PROVE  n \in Int /\ Wrap64(n * MsPerSec) \in Int
<1>1. n \in Int
  BY ClockAssumption DEF IsInt, Int64
<1>2. n * MsPerSec \in Int
  BY <1>1, ClockAssumption
<1>3. Wrap64(n * MsPerSec) \in Int64
  BY <1>2, Wrap64Type
<1> QED BY <1>1, <1>3, ClockAssumption DEF Int64

\* The lifetime that a timed option and its number make.
LEMMA LifetimeType ==
    ASSUME NEW o \in Timed, NEW n, IsInt(n), NEW ms \in Int
    PROVE  Lifetime(o, n, ms) \in Int
<1> DEFINE w == Wrap64(n * MsPerSec)
<1>1. n \in Int /\ w \in Int
  BY ScaledType
<1> HIDE DEF w
<1>2. Wrap64(w - ms) \in Int64 /\ Wrap64(n - ms) \in Int64
  BY <1>1, Wrap64Type
<1>3. Wrap64(w - ms) \in Int /\ Wrap64(n - ms) \in Int
  BY <1>2, ClockAssumption DEF Int64
<1>4. \/ Lifetime(o, n, ms) = w
      \/ Lifetime(o, n, ms) = n
      \/ Lifetime(o, n, ms) = (IF Wrap64(w - ms) < 0 THEN 1 ELSE Wrap64(w - ms))
      \/ Lifetime(o, n, ms) = (IF Wrap64(n - ms) < 0 THEN 1 ELSE Wrap64(n - ms))
  BY DEF Lifetime, Timed, w
<1> QED BY <1>1, <1>3, <1>4

\* EXPIRE and SETEX.
LEMMA TimedApplies ==
    ASSUME NEW in \in Inputs, Accepts(in), in.name \in {"EXPIRE", "SETEX"}, NEW ms
    PROVE  Applicable(Handle(in, ms))
<1> DEFINE a == in.args
           c == Handle(in, ms)
           w == Wrap64(a[2] * MsPerSec)
<1>1. a \in Seq(Arguments)
  BY InputsAssumption
<1>2. /\ \A i \in Positions(in).keys : a[i] \in Keys
      /\ \A i \in Positions(in).texts : a[i] \in Words \cup Int64
  BY InputsAssumption
<1>3. ArityOK(in) /\ FormOK(in)
  BY DEF Accepts
<1>4. /\ in.name = "SETEX" => Len(a) = 3
      /\ in.name = "EXPIRE" => Len(a) = 2
  BY <1>3, Arities
<1>5. a[1] \in Keys
  BY <1>2, <1>4 DEF Positions
<1>6. IsInt(a[2])
  BY <1>3 DEF FormOK
<1>7. w \in Int
  BY <1>6, ScaledType
<1>8. CASE in.name = "EXPIRE"
  <2>1. c = [Cmd("EXPIRE", a[1], << >>) EXCEPT !.ttl = w]
    BY <1>8 DEF Handle
  <2> HIDE DEF w, c
  <2>2. c.op = "EXPIRE" /\ c.key = a[1] /\ c.ttl = w
    BY <2>1 DEF Cmd
  <2> QED BY <1>5, <1>7, <2>2, ExpireIsApplicable DEF c
<1>9. CASE in.name = "SETEX"
  <2>1. c = [Cmd("SET", a[1], <<a[3]>>) EXCEPT !.ttl = w]
    BY <1>9 DEF Handle
  <2>2. a[3] \in Words \cup Int64
    BY <1>2, <1>4, <1>9 DEF Positions, StringOps, CountOps
  <2> HIDE DEF w, c
  <2>3. /\ c.op = "SET" /\ c.key = a[1] /\ c.args = <<a[3]>> /\ c.ttl = w
        /\ c.cond = "" /\ c.get = FALSE
    BY <2>1 DEF Cmd
  <2>4. Applicable(c)
    BY <1>5, <1>7, <2>2, <2>3, SetIsApplicable
  <2> QED BY <2>4 DEF c
<1> QED BY <1>8, <1>9

\* SET with its options.
LEMMA SetApplies ==
    ASSUME NEW in \in Inputs, Accepts(in), in.name = "SET", NEW ms \in Int
    PROVE  Applicable(Handle(in, ms))
<1> DEFINE a       == in.args
           c       == Handle(in, ms)
           at(S)   == {i \in OptionsAt(a, Timed) : a[i] \in S}
           last(S) == CHOOSE i \in at(S) : \A j \in at(S) : j <= i
           ttl     == IF at(Timed) = {} THEN 0
                      ELSE Lifetime(a[last(Timed)], a[last(Timed) + 1], ms)
           cond    == IF at({NX, XX}) = {} THEN ""
                      ELSE IF a[last({NX, XX})] = NX THEN "NX" ELSE "XX"
           get     == at({GET}) # {}
<1>1. a \in Seq(Arguments)
  BY InputsAssumption
<1>2. /\ \A i \in Positions(in).keys : a[i] \in Keys
      /\ \A i \in Positions(in).texts : a[i] \in Words \cup Int64
  BY InputsAssumption
<1>3. ArityOK(in) /\ OptionsOK(a)
  BY DEF Accepts
<1>4. Len(a) >= 2 /\ Len(a) \in Nat
  BY <1>1, <1>3, Arities
<1>5. a[1] \in Keys /\ a[2] \in Words \cup Int64
  BY <1>2, <1>4 DEF Positions, StringOps
<1>6. c = SetCommand(a, Timed, ms)
  BY DEF Handle
<1>7. c = [Cmd("SET", a[1], <<a[2]>>) EXCEPT !.ttl = ttl, !.cond = cond, !.get = get]
  BY <1>6 DEF SetCommand
<1>8. ttl \in Int
  <2>1. CASE at(Timed) = {}
    BY <2>1
  <2>2. CASE at(Timed) # {}
    <3>1. at(Timed) \subseteq 1 .. Len(a)
      BY <1>4 DEF OptionsAt
    <3>2. \E i \in at(Timed) : \A j \in at(Timed) : j <= i
      BY <1>4, <2>2, <3>1, GreatestElement
    <3>3. last(Timed) \in at(Timed)
      BY <3>2
    <3> DEFINE i == last(Timed)
    <3> HIDE DEF i
    <3>4. i \in OptionsAt(a, Timed) /\ a[i] \in Timed
      BY <3>3 DEF i
    <3>5. IsInt(a[i + 1])
      BY <1>3, <3>4 DEF OptionsOK
    <3>6. Lifetime(a[i], a[i + 1], ms) \in Int
      BY <3>4, <3>5, LifetimeType
    <3> QED BY <2>2, <3>6 DEF i
  <2> QED BY <2>1, <2>2
<1>9. cond \in {"", "NX", "XX"} /\ get \in BOOLEAN
  OBVIOUS
<1> HIDE DEF c, ttl, cond, get
<1>10. /\ c.op = "SET" /\ c.key = a[1] /\ c.args = <<a[2]>> /\ c.ttl = ttl
       /\ c.cond = cond
  BY <1>7 DEF Cmd
<1>11. c.get = get
  BY <1>7 DEF Cmd
<1> HIDE DEF a
<1>12. Applicable(c)
  BY <1>5, <1>8, <1>9, <1>10, <1>11, SetIsApplicable
<1> QED BY <1>12 DEF c

\* Whatever a handler accepts becomes a command that can be applied.
LEMMA HandlersSendApplicable ==
    ASSUME NEW in \in Inputs, Accepts(in), NEW ms \in Int
    PROVE  Applicable(Handle(in, ms))
<1>1. ArityOK(in)
  BY DEF Accepts
<1>2. \/ in.name \in {"SET", "SETEX", "EXPIRE", "DEL", "UNLINK", "MSET", "FLUSHDB"}
      \/ in.name \in Plain
  BY <1>1, Arities DEF Plain
<1>3. CASE in.name = "SET"
  BY <1>3, SetApplies
<1>4. CASE in.name \in {"SETEX", "EXPIRE"}
  BY <1>4, TimedApplies
<1>5. CASE in.name \in {"DEL", "UNLINK", "FLUSHDB"}
  BY <1>5, DeleteApplies
<1>6. CASE in.name = "MSET"
  BY <1>6, MSetApplies
<1>7. CASE in.name \in Plain
  BY <1>7, PlainApplies
<1> QED BY <1>2, <1>3, <1>4, <1>5, <1>6, <1>7

(***************************************************************************)
(* The server, step by step.                                               *)
(***************************************************************************)
\* What NothingPanics needs: a clock, and one command for each connection.
Serving == now \in Nat /\ DOMAIN flight = Conns /\ NothingPanics

\* A connection whose command is replaced; the others keep theirs.
LEMMA Replaced ==
    ASSUME DOMAIN flight = Conns, NEW c \in Conns, NEW x, flight' = [flight EXCEPT ![c] = x]
    PROVE  /\ DOMAIN flight' = Conns /\ flight'[c] = x
           /\ \A d \in Conns : d # c => flight'[d] = flight[d]
OBVIOUS

\* The commands that wait are still applicable when those that have come are.
LEMMA StillServing ==
    ASSUME NothingPanics, DOMAIN flight = Conns, NEW c \in Conns, NEW x,
           flight' = [flight EXCEPT ![c] = x],
           x # Idle /\ x.cmd.op \in StoreOps => Applicable(x.cmd)
    PROVE  NothingPanics' /\ DOMAIN flight' = Conns
<1>1. /\ DOMAIN flight' = Conns /\ flight'[c] = x
      /\ \A d \in Conns : d # c => flight'[d] = flight[d]
  BY Replaced
<1>2. ASSUME NEW d \in Conns, flight'[d] # Idle, flight'[d].cmd.op \in StoreOps
      PROVE  Applicable(flight'[d].cmd)
  <2>1. CASE d = c
    BY <1>1, <1>2, <2>1
  <2>2. CASE d # c
    <3>1. flight'[d] = flight[d]
      BY <1>1, <2>2
    <3>2. Applicable(flight[d].cmd)
      BY <1>2, <3>1 DEF NothingPanics, Waits, Applicable
    <3> QED BY <3>1, <3>2
  <2> QED BY <2>1, <2>2
<1> QED BY <1>1, <1>2 DEF NothingPanics, Waits, Applicable

\* Every step of the server keeps Serving.
LEMMA ServingStep ==
    ASSUME Serving, [ServerNext]_serverVars
    PROVE  Serving'
<1>1. now \in Nat /\ DOMAIN flight = Conns /\ NothingPanics
  BY DEF Serving
<1>2. ASSUME NEW c \in Conns, Receive(c) PROVE Serving'
  <2>1. PICK in \in Inputs : Accepts(in) /\ Submit(c, in, Handle(in, UnixMilli(now)))
    BY <1>2 DEF Receive
  <2> DEFINE cmd == Handle(in, UnixMilli(now))
             x   == [in |-> in, cmd |-> cmd, at |-> now]
  <2>2. UnixMilli(now) \in Int
    BY <1>1, ClockAssumption DEF UnixMilli
  <2>3. Applicable(cmd)
    BY <2>1, <2>2, HandlersSendApplicable
  <2>4. flight' = [flight EXCEPT ![c] = x] /\ now' = now
    BY <2>1 DEF Submit
  <2> HIDE DEF cmd
  <2>5. x.cmd = cmd
    OBVIOUS
  <2> HIDE DEF x
  <2>6. NothingPanics' /\ DOMAIN flight' = Conns
    BY <1>1, <2>3, <2>4, <2>5, StillServing
  <2> QED BY <1>1, <2>4, <2>6 DEF Serving
<1>3. ASSUME NEW c \in Conns, ReceiveScript(c) PROVE Serving'
  <2>0. PICK op \in ScriptOps :
           \E body : Submit(c, Send(op, << >>), [op |-> op, body |-> body])
    BY <1>3 DEF ReceiveScript
  <2>1. PICK body : Submit(c, Send(op, << >>), [op |-> op, body |-> body])
    BY <2>0
  <2> DEFINE cmd == [op |-> op, body |-> body]
             x   == [in |-> Send(op, << >>), cmd |-> cmd, at |-> now]
  <2>2. flight' = [flight EXCEPT ![c] = x] /\ now' = now
    BY <2>1 DEF Submit
  <2>3. x.cmd.op = op
    OBVIOUS
  <2>4. op \notin StoreOps
    BY DEF ScriptOps, StoreOps, StringOps, PairOps, CountOps, BoundOps, WordOps
  <2> HIDE DEF x
  <2>5. NothingPanics' /\ DOMAIN flight' = Conns
    BY <1>1, <2>2, <2>3, <2>4, StillServing
  <2> QED BY <1>1, <2>2, <2>5 DEF Serving
<1>4. ASSUME NEW c \in Conns, Answered(c) PROVE Serving'
  <2>1. flight' = [flight EXCEPT ![c] = Idle] /\ now' = now
    BY <1>4 DEF Answered
  <2>2. NothingPanics' /\ DOMAIN flight' = Conns
    BY <1>1, <2>1, StillServing
  <2> QED BY <1>1, <2>1, <2>2 DEF Serving
<1>5. CASE Pass
  <2>1. now' \in Nat /\ flight' = flight
    BY <1>1, <1>5 DEF Pass, Tick
  <2>2. NothingPanics'
    BY <1>1, <2>1 DEF NothingPanics, Waits
  <2> QED BY <1>1, <2>1, <2>2 DEF Serving
<1>6. CASE UNCHANGED serverVars
  <2>1. now' = now /\ flight' = flight
    BY <1>6 DEF serverVars
  <2>2. NothingPanics'
    BY <1>1, <2>1 DEF NothingPanics, Waits
  <2> QED BY <1>1, <2>1, <2>2 DEF Serving
<1>7. ASSUME NEW c \in Conns,
             Commit(c) \/ Eval(c) \/ ScriptLoad(c) \/ ScriptExists(c) \/ ScriptFlush(c)
      PROVE  Answered(c)
  BY <1>7 DEF Commit, Eval, ScriptLoad, ScriptExists, ScriptFlush
<1> QED BY <1>2, <1>3, <1>4, <1>5, <1>6, <1>7 DEF ServerNext

\* The invariant holds from the start.
LEMMA ServingInvariant == ServerSpec => []Serving
<1>1. ServerInit => Serving
  BY RequestsAssumption DEF ServerInit, Init, Serving, NothingPanics, Waits
<1> QED BY <1>1, ServingStep, PTL DEF ServerSpec

\* Whatever clients send, in any number of connections: every command that a
\* handler puts in the Raft log can be applied by every replica.  None is refused
\* as malformed, none indexes an argument that is not there, and all belong to
\* the commands that the theorems about FSM are proved for.
THEOREM NothingEverPanics == ServerSpec => []NothingPanics
<1>1. Serving => NothingPanics
  BY DEF Serving
<1> QED BY <1>1, ServingInvariant, PTL

(***************************************************************************)
(* redis.call.                                                             *)
(***************************************************************************)
\* One step of the loop over SET's arguments.
Reads(f, a, timed, i) == i = 3 \/ ~(f[i - 1] /\ a[i - 1] \in timed)

\* A function that marks the positions up to n that the loop reads as options.
Marks(f, a, timed, n) == f = [i \in 3 .. n |-> Reads(f, a, timed, i)]

\* There is such a function, for every number of arguments.
LEMMA MarksExist ==
    ASSUME NEW a, NEW timed, NEW n \in Nat
    PROVE  \E f : Marks(f, a, timed, n)
<1> DEFINE S == {m \in Nat : ~ \E f : Marks(f, a, timed, m)}
<1> SUFFICES ASSUME S # {} PROVE FALSE
  OBVIOUS
<1>1. PICK m \in S : \A j \in S : m <= j
  BY LeastElement
<1>2. m \in Nat /\ ~ \E f : Marks(f, a, timed, m)
  OBVIOUS
<1>3. CASE m < 3
  <2> DEFINE f == [i \in 3 .. m |-> Reads(a, a, timed, i)]
  <2>1. f = [i \in 3 .. m |-> Reads(f, a, timed, i)]
    <3>1. \A i \in 3 .. m : Reads(a, a, timed, i) = Reads(f, a, timed, i)
      BY <1>2, <1>3
    <3> QED BY <3>1
  <2> QED BY <1>2, <2>1 DEF Marks
<1>4. CASE m >= 3
  <2>1. m - 1 \in Nat /\ ~(m <= m - 1)
    BY <1>2, <1>4
  <2>2. \E g : Marks(g, a, timed, m - 1)
    BY <1>1, <2>1
  <2>3. PICK g : Marks(g, a, timed, m - 1)
    BY <2>2
  <2> DEFINE f == [i \in 3 .. m |-> Reads(g, a, timed, i)]
  <2>4. ASSUME NEW i \in 3 .. m - 1 PROVE f[i] = g[i]
    <3>1. g[i] = Reads(g, a, timed, i)
      BY <2>3 DEF Marks
    <3>2. i \in 3 .. m
      BY <1>2
    <3> QED BY <3>1, <3>2
  <2>5. ASSUME NEW i \in 3 .. m PROVE Reads(g, a, timed, i) = Reads(f, a, timed, i)
    <3>1. CASE i = 3
      BY <3>1 DEF Reads
    <3>2. CASE i # 3
      <4>1. i - 1 \in 3 .. m - 1
        BY <1>2, <3>2
      <4>2. f[i - 1] = g[i - 1]
        BY <2>4, <4>1
      <4> HIDE DEF f
      <4> QED BY <4>2 DEF Reads
    <3> QED BY <3>1, <3>2
  <2>6. f = [i \in 3 .. m |-> Reads(f, a, timed, i)]
    BY <2>5
  <2> QED BY <1>2, <2>6 DEF Marks
<1> QED BY <1>2, <1>3, <1>4

\* The positions the loop reads as options, by such a function.
LEMMA OptionsAreMarked ==
    ASSUME NEW a, Len(a) \in Nat, NEW timed
    PROVE  \E f : /\ Marks(f, a, timed, Len(a))
                  /\ OptionsAt(a, timed) = {i \in 3 .. Len(a) : f[i]}
<1> DEFINE f == CHOOSE f : Marks(f, a, timed, Len(a))
<1>1. Marks(f, a, timed, Len(a))
  BY MarksExist
<1>2. OptionsAt(a, timed) = {i \in 3 .. Len(a) : f[i]}
  BY DEF OptionsAt, Marks, Reads
<1> QED BY <1>1, <1>2

\* Without an absolute time among the options, a script's SET reads the same
\* positions as options as a client's.
LEMMA SameOptions ==
    ASSUME NEW a, Len(a) \in Nat,
           \A i \in OptionsAt(a, Timed) : a[i] \notin {EXAT, PXAT}
    PROVE  OptionsAt(a, Timed) = OptionsAt(a, {EX, PX})
<1> DEFINE n == Len(a)
<1>1. PICK f : Marks(f, a, Timed, n) /\ OptionsAt(a, Timed) = {i \in 3 .. n : f[i]}
  BY OptionsAreMarked
<1>2. PICK g : Marks(g, a, {EX, PX}, n) /\ OptionsAt(a, {EX, PX}) = {i \in 3 .. n : g[i]}
  BY OptionsAreMarked
<1>3. \A i \in 3 .. n : f[i] = Reads(f, a, Timed, i)
  BY <1>1 DEF Marks
<1>4. \A i \in 3 .. n : g[i] = Reads(g, a, {EX, PX}, i)
  BY <1>2 DEF Marks
<1> DEFINE S == {i \in 3 .. n : ~(f[i] <=> g[i])}
<1>5. ASSUME S # {} PROVE FALSE
  <2>1. S \subseteq Nat
    OBVIOUS
  <2>2. PICK m \in S : \A j \in S : m <= j
    BY <1>5, <2>1, LeastElement
  <2>3. m \in 3 .. n /\ ~(f[m] <=> g[m])
    OBVIOUS
  <2>4. f[m] = Reads(f, a, Timed, m) /\ g[m] = Reads(g, a, {EX, PX}, m)
    BY <1>3, <1>4, <2>3
  <2>5. m # 3
    BY <2>3, <2>4 DEF Reads
  <2>6. m - 1 \in 3 .. n /\ ~(m <= m - 1)
    BY <2>3, <2>5
  <2>7. f[m - 1] <=> g[m - 1]
    BY <2>2, <2>6
  <2>8. f[m - 1] => a[m - 1] \notin {EXAT, PXAT}
    BY <1>1, <2>6
  <2>9. f[m - 1] => (a[m - 1] \in Timed <=> a[m - 1] \in {EX, PX})
    BY <2>8 DEF Timed
  <2> HIDE DEF S
  <2> QED BY <2>3, <2>4, <2>5, <2>7, <2>9, Zenon DEF Reads
<1>6. \A i \in 3 .. n : f[i] <=> g[i]
  BY <1>5
<1> HIDE DEF n
<1> QED BY <1>1, <1>2, <1>6

\* A script's SET is the client's, as long as no option names an absolute time.
LEMMA SameSet ==
    ASSUME NEW a, Len(a) \in Nat, NEW ms,
           \A i \in OptionsAt(a, Timed) : a[i] \notin {EXAT, PXAT}
    PROVE  SetCommand(a, Timed, ms) = SetCommand(a, {EX, PX}, 0)
<1> DEFINE O       == OptionsAt(a, Timed)
           at(S)   == {i \in O : a[i] \in S}
           last(S) == CHOOSE i \in at(S) : \A j \in at(S) : j <= i
           i       == last(Timed)
           cond    == IF at({NX, XX}) = {} THEN ""
                      ELSE IF a[last({NX, XX})] = NX THEN "NX" ELSE "XX"
           get     == at({GET}) # {}
           set(t)  == [Cmd("SET", a[1], <<a[2]>>) EXCEPT !.ttl = t, !.cond = cond, !.get = get]
           ttl(S, t) == IF at(S) = {} THEN 0 ELSE Lifetime(a[last(S)], a[last(S) + 1], t)
<1>1. O = OptionsAt(a, {EX, PX})
  BY SameOptions
<1>2. SetCommand(a, Timed, ms) = set(ttl(Timed, ms))
  BY DEF SetCommand
<1>3. SetCommand(a, {EX, PX}, 0) = set(ttl({EX, PX}, 0))
  BY <1>1 DEF SetCommand
<1>4. at(Timed) = at({EX, PX})
  BY DEF Timed
<1>5. last(Timed) = last({EX, PX})
  BY <1>4
<1>6. ASSUME at(Timed) # {} PROVE Lifetime(a[i], a[i + 1], ms) = Lifetime(a[i], a[i + 1], 0)
  <2>1. O \subseteq 1 .. Len(a)
    BY DEF OptionsAt
  <2>2. \E m \in at(Timed) : \A j \in at(Timed) : j <= m
    <3>1. at(Timed) \subseteq 1 .. Len(a)
      BY <2>1
    <3> QED BY <1>6, <3>1, GreatestElement
  <2>3. i \in at(Timed)
    BY <2>2
  <2>4. a[i] \in {EX, PX} /\ a[i] \notin {EXAT, PXAT}
    BY <2>3 DEF Timed
  <2> HIDE DEF i
  <2> QED BY <2>4 DEF Lifetime
<1>7. ttl(Timed, ms) = ttl({EX, PX}, 0)
  <2> DEFINE A == at(Timed)
             B == at({EX, PX})
             j == last({EX, PX})
  <2>1. A = B /\ i = j
    BY <1>4, <1>5
  <2>2. A # {} => Lifetime(a[i], a[i + 1], ms) = Lifetime(a[i], a[i + 1], 0)
    BY <1>6
  <2> HIDE DEF A, B, i, j
  <2>3. (IF A = {} THEN 0 ELSE Lifetime(a[i], a[i + 1], ms))
        = (IF B = {} THEN 0 ELSE Lifetime(a[j], a[j + 1], 0))
    BY <2>1, <2>2
  <2> QED BY <2>3, Zenon DEF A, B, i, j
<1> HIDE DEF ttl, set
<1> QED BY <1>2, <1>3, <1>7

\* FLUSHDB reads none of its arguments.
LEMMA FlushRuns ==
    ASSUME NEW c, NEW e, c.op = "FLUSHDB", e.op = "FLUSHDB", NEW d, NEW t
    PROVE  Run(d, t, c) = Run(d, t, e)
<1>1. ~Malformed(c) /\ ~Panics(c) /\ ~Malformed(e) /\ ~Panics(e)
  BY DEF Malformed, Panics, StoreOps, StringOps, PairOps, CountOps, BoundOps
<1>2. Decode(c) = [op |-> "FLUSHDB"] /\ Decode(e) = [op |-> "FLUSHDB"]
  BY DEF Decode, CountOps, WordOps
<1> QED BY <1>1, <1>2 DEF Run

\* A call of a script with an input that a handler accepts.
LEMMA CallOf ==
    ASSUME NEW in \in Inputs, in.name \in Shared, Accepts(in), Deadlines(in) = {}
    PROVE  CallAgrees(in)
<1> DEFINE a  == in.args
           s  == [name |-> in.name, args |-> a]
           ms == UnixMilli(now)
<1>1. s.name = in.name /\ s.args = a
  OBVIOUS
<1>2. a \in Seq(Arguments) /\ Len(a) \in Nat
  BY InputsAssumption
<1>3. ArityOK(in)
  BY DEF Accepts
<1>4. in.name \notin LuaReads
  BY DEF Shared, LuaReads, StoreOps, StringOps, PairOps, CountOps, BoundOps, WordOps
<1>5. in.name = "SET" \/ in.name = "FLUSHDB" \/ in.name \in Plain
  BY DEF Shared, Plain, StoreOps, StringOps, PairOps, CountOps, BoundOps, WordOps
<1>6. ASSUME in.name # "SET" PROVE LuaAccepts(s)
  BY <1>1, <1>4, <1>6 DEF LuaAccepts, LuaReads
<1> HIDE DEF s
<1>7. ASSUME LuaAccepts(s), Run(db, now, Handle(in, ms)) = Run(db, now, parseCommandForLua(s))
      PROVE  CallAgrees(in)
  <2>1. luaRedisCall(db, now, s) = Run(db, now, parseCommandForLua(s))
    BY <1>1, <1>4, <1>7 DEF luaRedisCall
  <2> QED BY <1>7, <2>1 DEF CallAgrees, s
<1>8. CASE in.name = "SET"
  <2>1. \A i \in OptionsAt(a, Timed) : a[i] \notin {EXAT, PXAT}
    BY DEF Deadlines, TimesAt
  <2>2. OptionsAt(a, Timed) = OptionsAt(a, {EX, PX})
    BY <1>2, <2>1, SameOptions
  <2>3. SetCommand(a, Timed, ms) = SetCommand(a, {EX, PX}, 0)
    BY <1>2, <2>1, SameSet
  <2>4. OptionsOK(a) /\ Len(a) >= 2
    BY <1>3, <1>8, Arities DEF Accepts
  <2>5. LuaOptionsOK(a)
    BY <2>2, <2>4 DEF OptionsOK, LuaOptionsOK, Timed
  <2>6. LuaAccepts(s)
    BY <1>1, <1>8, <2>4, <2>5 DEF LuaAccepts
  <2>7. parseCommandForLua(s) = SetCommand(a, {EX, PX}, 0)
    BY <1>1, <1>8 DEF parseCommandForLua
  <2>8. Handle(in, ms) = SetCommand(a, Timed, ms)
    BY <1>8 DEF Handle
  <2> QED BY <1>7, <2>3, <2>6, <2>7, <2>8
<1>9. CASE in.name \in Plain
  <2>1. a # << >>
    BY <1>9, PlainInput
  <2>2. in.name # "SET"
    BY <1>9 DEF Plain, CountOps, WordOps, BoundOps
  <2>3. parseCommandForLua(s) = Cmd(in.name, a[1], Tail(a))
    BY <1>1, <2>1, <2>2 DEF parseCommandForLua
  <2>4. Handle(in, ms) = Cmd(in.name, a[1], Tail(a))
    BY <1>9, PlainHandle
  <2> QED BY <1>6, <1>7, <2>2, <2>3, <2>4
<1>10. CASE in.name = "FLUSHDB"
  <2>1. Handle(in, ms) = Cmd("FLUSHDB", None, << >>)
    BY <1>10 DEF Handle
  <2>2. parseCommandForLua(s).op = "FLUSHDB" /\ Handle(in, ms).op = "FLUSHDB"
    <3>1. \/ parseCommandForLua(s) = Cmd("FLUSHDB", None, << >>)
          \/ parseCommandForLua(s) = Cmd("FLUSHDB", a[1], Tail(a))
      BY <1>1, <1>10 DEF parseCommandForLua
    <3>2. \A k, b : Cmd("FLUSHDB", k, b).op = "FLUSHDB"
      BY DEF Cmd
    <3> QED BY <2>1, <3>1, <3>2
  <2>3. Run(db, now, Handle(in, ms)) = Run(db, now, parseCommandForLua(s))
    BY <2>2, FlushRuns
  <2> QED BY <1>6, <1>7, <1>10, <2>3
<1> QED BY <1>5, <1>8, <1>9, <1>10

\* Two parsers, one effect: for every command in Shared that a handler accepts,
\* redis.call and the client's command have the same outcomes on every database,
\* whatever the order of SET's options, as long as they name no absolute time.
THEOREM CallsAlwaysAgree == ServerSpec => []CallsAgree
<1>1. CallsAgree
  BY CallOf DEF CallsAgree
<1> QED BY <1>1, PTL

(***************************************************************************)
(* Whatever a script passes, the database keeps its keys and sound tags.   *)
(***************************************************************************)
\* The entries of the keys, and what the type entries say.
Shape(d) == /\ d = [K |-> d.K, T |-> d.T] /\ DOMAIN d.K = Keys /\ DOMAIN d.T = Keys
            /\ \A k \in Keys : d.T[k] # None => d.T[k].val \in Kinds
            /\ SoundTags(d)

\* A type that may be written beside a value.
MayName(typ, v) == typ \in Kinds /\ (typ # "string" => v.kind = typ)

\* Writing both entries of a key, or of something that is no key.
LEMMA SetValueShape ==
    ASSUME NEW d, Shape(d), NEW t, NEW k, NEW v, NEW typ, NEW ttl, k \in Keys => MayName(typ, v)
    PROVE  Shape(setValue(d, t, k, v, typ, ttl))
<1> DEFINE exp == IF ttl > 0 THEN WithTTL(t, ttl) ELSE 0
           x   == [val |-> v, exp |-> exp]
           y   == [val |-> typ, exp |-> exp]
           n   == setValue(d, t, k, v, typ, ttl)
<1>1. n = [K |-> [d.K EXCEPT ![k] = x], T |-> [d.T EXCEPT ![k] = y]]
  BY DEF setValue
<1>2. x.val = v /\ y.val = typ
  OBVIOUS
<1> HIDE DEF n, x, y
<1>3. /\ DOMAIN d.K = Keys /\ DOMAIN d.T = Keys
      /\ \A j \in Keys : d.T[j] # None => d.T[j].val \in Kinds
      /\ \A j \in Keys : d.K[j] # None /\ d.T[j] # None /\ d.T[j].val # "string"
                         => d.K[j].val.kind = d.T[j].val
  BY DEF Shape, SoundTags
<1>4. n = [K |-> n.K, T |-> n.T] /\ DOMAIN n.K = Keys /\ DOMAIN n.T = Keys
  BY <1>1, <1>3
<1>5. \A j \in Keys : /\ j # k => n.K[j] = d.K[j] /\ n.T[j] = d.T[j]
                      /\ j = k => n.K[j] = x /\ n.T[j] = y
  BY <1>1, <1>3
<1>6. ASSUME NEW j \in Keys
      PROVE  /\ n.T[j] # None => n.T[j].val \in Kinds
             /\ n.K[j] # None /\ n.T[j] # None /\ n.T[j].val # "string"
                => n.K[j].val.kind = n.T[j].val
  <2>1. CASE j = k
    BY <1>2, <1>5, <2>1 DEF MayName
  <2>2. CASE j # k
    BY <1>3, <1>5, <2>2
  <2> QED BY <2>1, <2>2
<1>7. Shape(n)
  BY <1>4, <1>6 DEF Shape, SoundTags
<1> QED BY <1>7 DEF n

\* Deleting entries, in pairs or one by one.
LEMMA LessShape ==
    ASSUME NEW d, Shape(d), NEW n, n = [K |-> n.K, T |-> n.T],
           DOMAIN n.K = Keys, DOMAIN n.T = Keys,
           \A k \in Keys : n.K[k] \in {None, d.K[k]} /\ n.T[k] \in {None, d.T[k]}
    PROVE  Shape(n)
BY DEF Shape, SoundTags

\* Writing, deleting and replacing.
LEMMA WritesKeepShape ==
    ASSUME NEW d, Shape(d), NEW t, NEW k
    PROVE  /\ \A v, ttl : v.kind \in Kinds => Shape(setValue(d, t, k, v, v.kind, ttl))
           /\ \A v, ttl : Shape(setValue(d, t, k, v, "string", ttl))
           /\ \A ks : Shape(Delete(d, ks))
           /\ \A v : v.kind \in Kinds => Shape(Replace(d, t, k, v))
           /\ \A v, e : v.kind \in Kinds => Shape(ReplaceOrDelete(d, t, k, v, e))
<1>1. \A v, ttl : v.kind \in Kinds => Shape(setValue(d, t, k, v, v.kind, ttl))
  BY SetValueShape DEF MayName
<1>2. \A v, ttl : Shape(setValue(d, t, k, v, "string", ttl))
  BY SetValueShape DEF MayName, Kinds
<1>3. ASSUME NEW ks PROVE Shape(Delete(d, ks))
  <2> DEFINE n == Delete(d, ks)
  <2>1. /\ n = [K |-> n.K, T |-> n.T] /\ DOMAIN n.K = Keys /\ DOMAIN n.T = Keys
        /\ \A j \in Keys : n.K[j] \in {None, d.K[j]} /\ n.T[j] \in {None, d.T[j]}
    BY DEF Delete
  <2> HIDE DEF n
  <2>2. Shape(n)
    BY <2>1, LessShape
  <2> QED BY <2>2 DEF n
<1>4. \A v : v.kind \in Kinds => Shape(Replace(d, t, k, v))
  BY <1>1 DEF Replace
<1>5. \A v, e : v.kind \in Kinds => Shape(ReplaceOrDelete(d, t, k, v, e))
  BY <1>3, <1>4 DEF ReplaceOrDelete
<1> QED BY <1>1, <1>2, <1>3, <1>4, <1>5

\* The commands that keep lifetimes, lists aside.
LEMMA KeptShape ==
    ASSUME NEW d, Shape(d), NEW t, NEW c, NEW n, KeepShape(d, t, c, n)
    PROVE  Shape(n)
BY WritesKeepShape DEF KeepShape

\* The commands on lists.
LEMMA ListShape ==
    ASSUME NEW d, Shape(d), NEW t, NEW c, NEW o \in applyCmdInTxn(d, t, c),
           c.op \in {"LPUSH", "RPUSH", "LPUSHX", "RPUSHX", "LPOP", "RPOP", "LTRIM", "LREM"}
    PROVE  Shape(o.db)
<1>1. ASSUME NEW r, Shape(r.db), o = Typed(d, t, c.key, "list", r) PROVE Shape(o.db)
  BY <1>1, TypedShape
<1>2. CASE c.op \in {"LPUSH", "RPUSH", "LPUSHX", "RPUSHX"}
  <2>1. o = PUSH(d, t, c)
    BY <1>2 DEF applyCmdInTxn
  <2> DEFINE old == ListOf(d, t, c.key)
             new == IF c.op \in {"LPUSH", "LPUSHX"} THEN Reversed(c.words) \o old
                                                    ELSE old \o c.words
             x == c.op \in {"LPUSHX", "RPUSHX"} /\ ~Exists(d, t, c.key)
             r == IF x THEN Outcome(d, IntReply(0))
                  ELSE Outcome(Replace(d, t, c.key, List(new)), IntReply(Len(new)))
  <2>2. o = Typed(d, t, c.key, "list", r)
    BY <2>1 DEF PUSH
  <2> HIDE DEF new, x
  <2>3. r.db = d \/ r.db = Replace(d, t, c.key, List(new))
    BY DEF Outcome
  <2> HIDE DEF r
  <2> QED BY <1>1, <2>2, <2>3, WritesKeepShape, KindsOf
<1>3. CASE c.op \in {"LPOP", "RPOP"}
  <2>1. o = POP(d, t, c)
    BY <1>3 DEF applyCmdInTxn
  <2> DEFINE old  == ListOf(d, t, c.key)
             n    == IF c.count = << >> THEN 1
                     ELSE IF c.count[1] > Len(old) THEN Len(old) ELSE c.count[1]
             left == c.op = "LPOP"
             new  == IF left THEN SubSeq(old, n + 1, Len(old))
                             ELSE SubSeq(old, 1, Len(old) - n)
             out  == IF left THEN SubSeq(old, 1, n)
                             ELSE SubSeq(Reversed(old), 1, n)
             bad  == c.count # << >> /\ ~(IsInteger(c.count) /\ c.count[1] >= 0)
             e    == new = << >>
             r == IF old = << >> THEN Outcome(d, NilReply)
                  ELSE IF bad THEN Fail(d, "NOTINTEGER")
                  ELSE Outcome(ReplaceOrDelete(d, t, c.key, List(new), e),
                               IF c.count = << >> THEN BulkReply(out) ELSE ArrayReply(out))
  <2>2. o = Typed(d, t, c.key, "list", r)
    BY <2>1 DEF POP
  <2> HIDE DEF new, out, bad, e, old
  <2>3. r.db = d \/ r.db = ReplaceOrDelete(d, t, c.key, List(new), e)
    BY DEF Outcome, Fail
  <2> HIDE DEF r
  <2> QED BY <1>1, <2>2, <2>3, WritesKeepShape, KindsOf
<1>4. CASE c.op = "LTRIM"
  <2>1. o = LTRIM(d, t, c)
    BY <1>4 DEF applyCmdInTxn
  <2> DEFINE new == sliceList(ListOf(d, t, c.key), c.start, c.stop)
             r == Outcome(ReplaceOrDelete(d, t, c.key, List(new), new = << >>), OKReply)
  <2>2. o = Typed(d, t, c.key, "list", r)
    BY <2>1 DEF LTRIM
  <2> HIDE DEF new
  <2>3. r.db = ReplaceOrDelete(d, t, c.key, List(new), new = << >>)
    BY DEF Outcome
  <2> HIDE DEF r
  <2> QED BY <1>1, <2>2, <2>3, WritesKeepShape, KindsOf
<1>5. CASE c.op = "LREM"
  <2>1. o = LREM(d, t, c)
    BY <1>5 DEF applyCmdInTxn
  <2> DEFINE old  == ListOf(d, t, c.key)
             hits == {i \in DOMAIN old : old[i] = c.val}
             gone == {i \in hits :
               \/ c.limit = 0
               \/ c.limit > 0 /\ Cardinality({j \in hits : j < i}) < c.limit
               \/ c.limit < 0 /\ Cardinality({j \in hits : j > i}) < -c.limit}
             kept == DOMAIN old \ gone
             rank(i) == Cardinality({j \in kept : j <= i})
             new == [m \in 1 .. Cardinality(kept) |->
                        old[CHOOSE i \in kept : rank(i) = m]]
             e == kept = {}
             r == Outcome(ReplaceOrDelete(d, t, c.key, List(new), e),
                          IntReply(Cardinality(gone)))
  <2>2. o = Typed(d, t, c.key, "list", r)
    BY <2>1 DEF LREM
  <2> HIDE DEF gone, new, e
  <2>3. r.db = ReplaceOrDelete(d, t, c.key, List(new), e)
    BY DEF Outcome
  <2> HIDE DEF r
  <2> QED BY <1>1, <2>2, <2>3, WritesKeepShape, KindsOf
<1> QED BY <1>2, <1>3, <1>4, <1>5

\* The commands that give and take values and lifetimes.
LEMMA WriteShape ==
    ASSUME NEW d, Shape(d), NEW t, NEW c, NEW o \in applyCmdInTxn(d, t, c),
           c.op \in {"SET", "GETSET", "MSET", "DEL", "FLUSHDB", "EXPIRE", "PERSIST"}
    PROVE  Shape(o.db)
<1>1. ASSUME NEW r, Shape(r.db), o = Typed(d, t, c.key, "string", r) PROVE Shape(o.db)
  BY <1>1, TypedShape
<1>2. CASE c.op = "SET"
  <2>1. o = SET(d, t, c)
    BY <1>2 DEF applyCmdInTxn
  <2> DEFINE set == setKey(c, Exists(d, t, c.key))
             r == Outcome(IF set THEN setValue(d, t, c.key, Str(c.val), "string", c.ttl) ELSE d,
                          IF c.get THEN OldReply(d, t, c.key)
                          ELSE IF set THEN OKReply ELSE NilReply)
  <2>2. o = Typed(d, t, c.key, "string", r)
    BY <2>1 DEF SET
  <2> HIDE DEF set
  <2>3. r.db = d \/ r.db = setValue(d, t, c.key, Str(c.val), "string", c.ttl)
    BY DEF Outcome
  <2> HIDE DEF r
  <2> QED BY <1>1, <2>2, <2>3, WritesKeepShape
<1>3. CASE c.op = "GETSET"
  <2>1. o = GETSET(d, t, c)
    BY <1>3 DEF applyCmdInTxn
  <2> DEFINE r == Outcome(setValue(d, t, c.key, Str(c.val), "string", 0), OldReply(d, t, c.key))
  <2>2. o = Typed(d, t, c.key, "string", r)
    BY <2>1 DEF GETSET
  <2>3. r.db = setValue(d, t, c.key, Str(c.val), "string", 0)
    BY DEF Outcome
  <2> HIDE DEF r
  <2> QED BY <1>1, <2>2, <2>3, WritesKeepShape
<1>4. CASE c.op = "MSET"
  <2>1. o = MSET(d, t, c)
    BY <1>4 DEF applyCmdInTxn
  <2> DEFINE n == o.db
             R(k) == k \in Keys /\ n.K[k] = d.K[k] /\ n.T[k] = d.T[k]
             W(k) == k \in Keys /\ n.T[k] = [val |-> "string", exp |-> 0]
  <2>2. /\ n = [K |-> n.K, T |-> n.T] /\ DOMAIN n.K = Keys /\ DOMAIN n.T = Keys
        /\ \A k \in Keys : R(k) \/ W(k)
    BY <2>1 DEF MSET, Outcome
  <2> HIDE DEF n
  <2>3. ASSUME NEW k \in Keys
        PROVE  /\ n.T[k] # None => n.T[k].val \in Kinds
               /\ n.K[k] # None /\ n.T[k] # None /\ n.T[k].val # "string"
                  => n.K[k].val.kind = n.T[k].val
    <3>1. CASE R(k)
      BY <3>1 DEF Shape, SoundTags
    <3>2. CASE W(k)
      BY <3>2 DEF Kinds
    <3> QED BY <2>2, <3>1, <3>2
  <2> QED BY <2>2, <2>3 DEF Shape, SoundTags, n
<1>5. CASE c.op = "DEL"
  <2>1. o = DEL(d, t, c)
    BY <1>5 DEF applyCmdInTxn
  <2> DEFINE gone == {k \in Keys : (\E i \in DOMAIN c.keys : c.keys[i] = k) /\ Exists(d, t, k)}
  <2>2. \/ o.db = [d EXCEPT !.K = [@ EXCEPT ![c.key] = None]]
        \/ o.db = Delete(d, gone)
    BY <2>1 DEF DEL, Outcome
  <2>3. Shape([d EXCEPT !.K = [@ EXCEPT ![c.key] = None]])
    <3> DEFINE n == [d EXCEPT !.K = [@ EXCEPT ![c.key] = None]]
    <3>1. d = [K |-> d.K, T |-> d.T] /\ DOMAIN d.K = Keys /\ DOMAIN d.T = Keys
      BY DEF Shape
    <3>2. n = [K |-> [d.K EXCEPT ![c.key] = None], T |-> d.T]
      BY <3>1
    <3> HIDE DEF n
    <3>3. /\ n = [K |-> n.K, T |-> n.T] /\ DOMAIN n.K = Keys /\ DOMAIN n.T = Keys
          /\ \A j \in Keys : n.K[j] \in {None, d.K[j]} /\ n.T[j] \in {None, d.T[j]}
      BY <3>1, <3>2
    <3>4. Shape(n)
      BY <3>3, LessShape
    <3> QED BY <3>4 DEF n
  <2> HIDE DEF gone
  <2> QED BY <2>2, <2>3, WritesKeepShape
<1>6. CASE c.op = "FLUSHDB"
  <2>1. o = FLUSHDB(d, t, c)
    BY <1>6 DEF applyCmdInTxn
  <2> DEFINE n == o.db
  <2>2. /\ n = [K |-> n.K, T |-> n.T] /\ DOMAIN n.K = Keys /\ DOMAIN n.T = Keys
        /\ \A j \in Keys : n.K[j] \in {None, d.K[j]} /\ n.T[j] \in {None, d.T[j]}
    BY <2>1 DEF FLUSHDB, Outcome
  <2> HIDE DEF n
  <2>3. Shape(n)
    BY <2>2, LessShape
  <2> QED BY <2>3 DEF n
<1>7. CASE c.op = "EXPIRE"
  <2>1. o = EXPIRE(d, t, c)
    BY <1>7 DEF applyCmdInTxn
  <2> DEFINE k == c.key
             x == [val |-> d.K[k].val, exp |-> WithTTL(t, c.ttl)]
             m == [d EXCEPT !.K = [@ EXCEPT ![k] = x]]
             n == o.db
  <2>2. d = [K |-> d.K, T |-> d.T] /\ DOMAIN d.K = Keys /\ DOMAIN d.T = Keys
    BY DEF Shape
  <2>3. n = d \/ (Exists(d, t, k) /\ n = m)
    <3>1. o = IF Exists(d, t, k) THEN Outcome(m, IntReply(1)) ELSE Outcome(d, IntReply(0))
      BY <2>1 DEF EXPIRE
    <3> HIDE DEF m, k, x
    <3>2. CASE Exists(d, t, k)
      BY <3>1, <3>2 DEF Outcome
    <3>3. CASE ~Exists(d, t, k)
      <4>1. o = Outcome(d, IntReply(0))
        BY <3>1, <3>3, Zenon
      <4> QED BY <4>1 DEF Outcome
    <3> QED BY <3>2, <3>3
  <2>4. x.val = d.K[k].val
    OBVIOUS
  <2> HIDE DEF x, n
  <2>5. ASSUME Exists(d, t, k), n = m PROVE Shape(n)
    <3>1. n = [K |-> [d.K EXCEPT ![k] = x], T |-> d.T]
      BY <2>2, <2>5
    <3>2. /\ n = [K |-> n.K, T |-> n.T] /\ DOMAIN n.K = Keys /\ n.T = d.T
          /\ \A j \in Keys : n.K[j] = IF j = k THEN x ELSE d.K[j]
      BY <2>2, <3>1
    <3>3. ASSUME NEW j \in Keys, n.K[j] # None, n.T[j] # None, n.T[j].val # "string"
          PROVE  n.K[j].val.kind = n.T[j].val
      <4>1. d.K[j] # None
        BY <2>5, <3>2, <3>3 DEF Exists, Live
      <4>2. n.K[j].val = d.K[j].val
        BY <2>4, <3>2
      <4> QED BY <3>2, <3>3, <4>1, <4>2 DEF Shape, SoundTags
    <3> QED BY <2>2, <3>2, <3>3 DEF Shape, SoundTags
  <2> QED BY <2>3, <2>5 DEF n
<1>8. CASE c.op = "PERSIST"
  <2>1. o = PERSIST(d, t, c)
    BY <1>8 DEF applyCmdInTxn
  <2>2. \/ o.db = d
        \/ o.db = setValue(d, t, c.key, d.K[c.key].val, getExistingType(d, t, c.key), 0)
    BY <2>1 DEF PERSIST, Outcome
  <2>3. ASSUME o.db # d, c.key \in Keys
        PROVE  MayName(getExistingType(d, t, c.key), d.K[c.key].val)
    <3>1. Exists(d, t, c.key)
      BY <2>1, <2>3 DEF PERSIST, Outcome
    <3> QED BY <2>3, <3>1
            DEF getExistingType, MayName, Exists, Live, Shape, SoundTags, Kinds
  <2> QED BY <2>2, <2>3, SetValueShape
<1> QED BY <1>2, <1>3, <1>4, <1>5, <1>6, <1>7, <1>8

\* Decoding keeps the operation.
LEMMA DecodedOp ==
    ASSUME NEW c, c.op \in StoreOps
    PROVE  Decode(c).op = c.op
<1> USE DEF Decode, CountOps, WordOps
<1>1. CASE c.op \in StringOps
  BY <1>1 DEF StringOps
<1>2. CASE c.op \in CountOps
  BY <1>2
<1>3. CASE c.op \in PairOps
  BY <1>3 DEF PairOps
<1>4. CASE c.op \in WordOps
  BY <1>4
<1>5. CASE c.op \in BoundOps
  BY <1>5 DEF BoundOps
<1>6. CASE c.op \in {"DEL", "FLUSHDB", "INCR", "DECR"}
  BY <1>6
<1>7. CASE c.op \in {"EXPIRE", "PERSIST", "LPOP", "RPOP", "SPOP"}
  BY <1>7
<1> QED BY <1>1, <1>2, <1>3, <1>4, <1>5, <1>6, <1>7 DEF StoreOps

\* Every command keeps the shape of the database, however it is made.
LEMMA RunShape ==
    ASSUME NEW d, Shape(d), NEW t, NEW c, NEW o \in Run(d, t, c)
    PROVE  Shape(o.db)
<1>1. CASE Malformed(c)
  BY <1>1 DEF Run, Fail, Outcome
<1>2. CASE ~Malformed(c) /\ Panics(c)
  <2>1. o = RunToPanic(d, t, c)
    BY <1>2 DEF Run
  <2> DEFINE r == Outcome(d, PanicReply)
             s == IF Exists(d, t, c.key) /\ ~IsInteger(StringOf(d, t, c.key))
                  THEN Fail(d, "NOTINTEGER") ELSE r
  <2>2. r.db = d /\ s.db = d
    BY DEF Outcome, Fail
  <2>3. o = Typed(d, t, c.key, "list", r) \/ o = Typed(d, t, c.key, "string", s)
    BY <2>1 DEF RunToPanic
  <2> HIDE DEF r, s
  <2> QED BY <2>2, <2>3, TypedShape
<1>3. CASE ~Malformed(c) /\ ~Panics(c)
  <2> DEFINE e == Decode(c)
  <2>1. o \in applyCmdInTxn(d, t, e)
    BY <1>3 DEF Run
  <2>2. c.op \in StoreOps
    BY <1>3 DEF Malformed
  <2>3. e.op \in StoreOps
    BY <2>2, DecodedOp
  <2> HIDE DEF e
  <2>4. CASE e.op \in {"APPEND", "INCR", "DECR", "INCRBY", "DECRBY"}
    BY <2>1, <2>4, StringsKeep, KeptShape
  <2>5. CASE e.op \in {"HSET", "HSETNX", "HDEL"}
    BY <2>1, <2>5, HashesKeep, KeptShape
  <2>6. CASE e.op \in {"SADD", "SREM", "SPOP"}
    BY <2>1, <2>6, SetsKeep, KeptShape
  <2>7. CASE e.op \in {"LPUSH", "RPUSH", "LPUSHX", "RPUSHX", "LPOP", "RPOP", "LTRIM", "LREM"}
    BY <2>1, <2>7, ListShape
  <2>8. CASE e.op \in {"SET", "GETSET", "MSET", "DEL", "FLUSHDB", "EXPIRE", "PERSIST"}
    BY <2>1, <2>8, WriteShape
  <2> QED BY <2>3, <2>4, <2>5, <2>6, <2>7, <2>8
          DEF StoreOps, StringOps, PairOps, CountOps, BoundOps, WordOps
<1> QED BY <1>1, <1>2, <1>3

\* So does every call of a script.
LEMMA CallShape ==
    ASSUME NEW d, Shape(d), NEW t, NEW s, NEW o \in luaRedisCall(d, t, s)
    PROVE  Shape(o.db)
<1>1. CASE ~LuaAccepts(s)
  BY <1>1 DEF luaRedisCall, Fail, Outcome
<1>2. CASE LuaAccepts(s) /\ s.name \in LuaReads
  BY <1>2 DEF luaRedisCall, Outcome
<1>3. CASE LuaAccepts(s) /\ s.name \notin LuaReads
  BY <1>3, RunShape DEF luaRedisCall
<1> QED BY <1>1, <1>2, <1>3

(***************************************************************************)
(* The calls of a script, one after the other.                             *)
(***************************************************************************)
\* What a call makes of the states that a script may be in.
CallOn(S, t, s) ==
    UNION {IF o.reply.type = "stopped" THEN {o}
           ELSE {IF Raises(s, p.reply) THEN Outcome(p.db, [type |-> "stopped"]) ELSE p :
                   p \in luaRedisCall(o.db, t, s)} : o \in S}

\* A function from the number of calls made to those states.
Follows(f, d, t, body, n) ==
    f = [i \in 0 .. n |-> IF i = 0 THEN {Outcome(d, NilReply)} ELSE CallOn(f[i - 1], t, body[i])]

\* There is one for every number of calls.
LEMMA FollowsExist ==
    ASSUME NEW d, NEW t, NEW body, NEW n \in Nat
    PROVE  \E f : Follows(f, d, t, body, n)
<1> DEFINE S       == {m \in Nat : ~ \E f : Follows(f, d, t, body, m)}
           at(g, i) == IF i = 0 THEN {Outcome(d, NilReply)} ELSE CallOn(g[i - 1], t, body[i])
<1> SUFFICES ASSUME S # {} PROVE FALSE
  OBVIOUS
<1>1. PICK m \in S : \A j \in S : m <= j
  BY LeastElement
<1>2. m \in Nat /\ ~ \E f : Follows(f, d, t, body, m)
  OBVIOUS
<1>3. \A g, h, i : (i # 0 => g[i - 1] = h[i - 1]) => at(g, i) = at(h, i)
  OBVIOUS
<1>4. \A f : Follows(f, d, t, body, m) <=> f = [i \in 0 .. m |-> at(f, i)]
  BY DEF Follows
<1>5. \A f : Follows(f, d, t, body, m - 1) <=> f = [i \in 0 .. m - 1 |-> at(f, i)]
  BY DEF Follows
<1> HIDE DEF at
<1>6. CASE m = 0
  <2> DEFINE f == [i \in 0 .. m |-> at(d, i)]
  <2>1. \A i \in 0 .. m : at(d, i) = at(f, i)
    BY <1>3, <1>6
  <2>2. f = [i \in 0 .. m |-> at(f, i)]
    BY <2>1
  <2> QED BY <1>2, <1>4, <2>2
<1>7. CASE m # 0
  <2>1. m - 1 \in Nat /\ ~(m <= m - 1)
    BY <1>2, <1>7
  <2>2. \E g : Follows(g, d, t, body, m - 1)
    BY <1>1, <2>1
  <2>3. PICK g : g = [i \in 0 .. m - 1 |-> at(g, i)]
    BY <1>5, <2>2
  <2> DEFINE f == [i \in 0 .. m |-> at(g, i)]
  <2>4. ASSUME NEW i \in 0 .. m - 1 PROVE f[i] = g[i]
    <3>1. g[i] = at(g, i)
      BY <2>3
    <3>2. i \in 0 .. m
      BY <1>2
    <3> QED BY <3>1, <3>2
  <2>5. ASSUME NEW i \in 0 .. m PROVE at(g, i) = at(f, i)
    <3>1. i # 0 => i - 1 \in 0 .. m - 1
      BY <1>2
    <3>2. i # 0 => f[i - 1] = g[i - 1]
      BY <2>4, <3>1
    <3> HIDE DEF f
    <3> QED BY <1>3, <3>2
  <2>6. f = [i \in 0 .. m |-> at(f, i)]
    BY <2>5
  <2> QED BY <1>2, <1>4, <2>6
<1> QED BY <1>6, <1>7

\* The states after the last call, by such a function.
LEMMA CallsFollow ==
    ASSUME NEW d, NEW t, NEW body, Len(body) \in Nat
    PROVE  \E f : Follows(f, d, t, body, Len(body)) /\ Calls(d, t, body) = f[Len(body)]
<1> DEFINE f == CHOOSE f : Follows(f, d, t, body, Len(body))
<1>1. Follows(f, d, t, body, Len(body))
  BY FollowsExist
<1>2. Calls(d, t, body) = f[Len(body)]
  BY DEF Calls, Follows, CallOn
<1> QED BY <1>1, <1>2

\* A script keeps the shape of the database, whatever it calls.
LEMMA ScriptShape ==
    ASSUME NEW d, Shape(d), NEW t, NEW body, Len(body) \in Nat, NEW o \in runLua(d, t, body)
    PROVE  Shape(o.db)
<1> DEFINE n == Len(body)
<1>1. PICK f : Follows(f, d, t, body, n) /\ Calls(d, t, body) = f[n]
  BY CallsFollow
<1>2. \A i \in 0 .. n :
         f[i] = IF i = 0 THEN {Outcome(d, NilReply)} ELSE CallOn(f[i - 1], t, body[i])
  BY <1>1 DEF Follows
<1> DEFINE S == {i \in 0 .. n : ~ \A p \in f[i] : Shape(p.db)}
<1>3. ASSUME S # {} PROVE FALSE
  <2>1. S \subseteq Nat
    OBVIOUS
  <2>2. PICK m \in S : \A j \in S : m <= j
    BY <1>3, <2>1, LeastElement
  <2>3. m \in 0 .. n /\ ~ \A p \in f[m] : Shape(p.db)
    OBVIOUS
  <2>4. m # 0
    BY <1>2, <2>3 DEF Outcome
  <2>5. m - 1 \in 0 .. n /\ ~(m <= m - 1)
    BY <2>3, <2>4
  <2>6. \A p \in f[m - 1] : Shape(p.db)
    BY <2>2, <2>5
  <2>7. f[m] = CallOn(f[m - 1], t, body[m])
    BY <1>2, <2>3, <2>4
  <2> HIDE DEF S
  <2>8. ASSUME NEW q \in f[m] PROVE Shape(q.db)
    <3>1. PICK p \in f[m - 1] :
             \/ q = p
             \/ \E r \in luaRedisCall(p.db, t, body[m]) :
                  q = IF Raises(body[m], r.reply) THEN Outcome(r.db, [type |-> "stopped"]) ELSE r
      BY <2>7 DEF CallOn
    <3>2. Shape(p.db)
      BY <2>6
    <3>3. ASSUME NEW r \in luaRedisCall(p.db, t, body[m]),
                 q = IF Raises(body[m], r.reply) THEN Outcome(r.db, [type |-> "stopped"]) ELSE r
          PROVE  Shape(q.db)
      <4>1. Shape(r.db)
        BY <3>2, CallShape
      <4>2. q.db = r.db
        BY <3>3 DEF Outcome
      <4> QED BY <4>1, <4>2
    <3> QED BY <3>1, <3>2, <3>3
  <2> QED BY <2>3, <2>8
<1>4. \A p \in f[n] : Shape(p.db)
  <2>1. n \in 0 .. n
    OBVIOUS
  <2> HIDE DEF n
  <2> QED BY <1>3, <2>1
<1>5. PICK p \in Calls(d, t, body) :
         o = IF p.reply.type = "stopped" THEN Fail(d, "SCRIPT")
             ELSE Outcome(p.db, LuaReply(p.reply))
  BY DEF runLua
<1>6. o.db = d \/ o.db = p.db
  BY <1>5 DEF Fail, Outcome
<1> QED BY <1>1, <1>4, <1>5, <1>6

(***************************************************************************)
(* Deadlines.                                                              *)
(***************************************************************************)
\* At an instant, a command in flight is the one its handler built when it
\* arrived, or a script.
Recorded(f, t) ==
    \/ /\ f.in \in Inputs /\ Accepts(f.in) /\ f.at \in Nat /\ f.at <= t
       /\ f.cmd = Handle(f.in, UnixMilli(f.at))
    \/ f.cmd.op \in ScriptOps /\ f.cmd.body \in Bodies \cup Stored

\* The database has its keys, and every command in flight is as it came.
InOrder == /\ now \in Nat /\ Start <= now /\ DOMAIN flight = Conns /\ Shape(db)
           /\ \A c \in Conns : flight[c] # Idle => Recorded(flight[c], now)

\* A new command, or none, for one connection; time does not pass.
LEMMA StillInOrder ==
    ASSUME InOrder, NEW c \in Conns, NEW x, flight' = [flight EXCEPT ![c] = x], now' = now,
           x # Idle => Recorded(x, now), Shape(db')
    PROVE  InOrder'
<1>1. /\ now \in Nat /\ Start <= now /\ DOMAIN flight = Conns
      /\ \A d \in Conns : flight[d] # Idle => Recorded(flight[d], now)
  BY DEF InOrder
<1>2. /\ DOMAIN flight' = Conns /\ flight'[c] = x
      /\ \A d \in Conns : d # c => flight'[d] = flight[d]
  BY <1>1, Replaced
<1>3. ASSUME NEW d \in Conns, flight'[d] # Idle PROVE Recorded(flight'[d], now')
  <2>1. CASE d = c
    BY <1>2, <1>3, <2>1
  <2>2. CASE d # c
    BY <1>1, <1>2, <1>3, <2>2
  <2> QED BY <2>1, <2>2
<1> QED BY <1>1, <1>2, <1>3 DEF InOrder

\* The script of an EVAL in flight is one that was sent.
LEMMA ScriptInFlight ==
    ASSUME InOrder, NEW c \in Conns, flight[c] # Idle, flight[c].cmd.op \in {"EVAL", "EVALSHA"}
    PROVE  flight[c].cmd.body \in Bodies \cup Stored
<1>1. Recorded(flight[c], now)
  BY DEF InOrder
<1>2. ASSUME flight[c].in \in Inputs, Accepts(flight[c].in), flight[c].at \in Nat,
             flight[c].cmd = Handle(flight[c].in, UnixMilli(flight[c].at))
      PROVE  FALSE
  <2>1. UnixMilli(flight[c].at) \in Int
    BY <1>2, ClockAssumption DEF UnixMilli
  <2>2. Applicable(flight[c].cmd)
    BY <1>2, <2>1, HandlersSendApplicable
  <2>3. flight[c].cmd.op \in StoreOps
    BY <2>2 DEF Applicable, Malformed
  <2> QED BY <2>3 DEF StoreOps, StringOps, PairOps, CountOps, BoundOps, WordOps
<1> QED BY <1>1, <1>2 DEF Recorded

\* Every step of the server keeps InOrder.
LEMMA InOrderStep ==
    ASSUME InOrder, [ServerNext]_serverVars
    PROVE  InOrder'
<1>1. /\ now \in Nat /\ Start <= now /\ DOMAIN flight = Conns /\ Shape(db)
      /\ \A c \in Conns : flight[c] # Idle => Recorded(flight[c], now)
  BY DEF InOrder
<1>2. ASSUME NEW c \in Conns, Receive(c) PROVE InOrder'
  <2>1. PICK in \in Inputs : Accepts(in) /\ Submit(c, in, Handle(in, UnixMilli(now)))
    BY <1>2 DEF Receive
  <2> DEFINE cmd == Handle(in, UnixMilli(now))
             x   == [in |-> in, cmd |-> cmd, at |-> now]
  <2>2. flight' = [flight EXCEPT ![c] = x] /\ now' = now /\ db' = db
    BY <2>1 DEF Submit
  <2> HIDE DEF cmd
  <2>3. x.in = in /\ x.cmd = cmd /\ x.at = now
    OBVIOUS
  <2> HIDE DEF x
  <2>4. Recorded(x, now)
    BY <1>1, <2>1, <2>3 DEF Recorded, cmd
  <2> QED BY <1>1, <2>2, <2>4, StillInOrder
<1>3. ASSUME NEW c \in Conns, ReceiveScript(c) PROVE InOrder'
  <2>0. PICK op \in ScriptOps : \E body \in Bodies \cup Stored :
           Submit(c, Send(op, << >>), [op |-> op, body |-> body])
    BY <1>3 DEF ReceiveScript
  <2>1. PICK body \in Bodies \cup Stored :
           Submit(c, Send(op, << >>), [op |-> op, body |-> body])
    BY <2>0
  <2> DEFINE cmd == [op |-> op, body |-> body]
             x   == [in |-> Send(op, << >>), cmd |-> cmd, at |-> now]
  <2>2. flight' = [flight EXCEPT ![c] = x] /\ now' = now /\ db' = db
    BY <2>1 DEF Submit
  <2>3. x.cmd.op = op /\ x.cmd.body = body
    OBVIOUS
  <2> HIDE DEF x
  <2>4. Recorded(x, now)
    BY <2>3 DEF Recorded
  <2> QED BY <1>1, <2>2, <2>4, StillInOrder
<1>4. ASSUME NEW c \in Conns, Answered(c), Shape(db') PROVE InOrder'
  <2>1. flight' = [flight EXCEPT ![c] = Idle] /\ now' = now
    BY <1>4 DEF Answered
  <2> QED BY <1>4, <2>1, StillInOrder
<1>5. ASSUME NEW c \in Conns, Commit(c) PROVE InOrder'
  <2>1. Answered(c) /\ \E o \in Run(db, now, flight[c].cmd) : db' = o.db
    BY <1>5 DEF Commit
  <2>2. Shape(db')
    BY <1>1, <2>1, RunShape
  <2> QED BY <1>4, <2>1, <2>2
<1>6. ASSUME NEW c \in Conns, Eval(c) PROVE InOrder'
  <2>1. /\ Answered(c) /\ flight[c] # Idle /\ flight[c].cmd.op \in {"EVAL", "EVALSHA"}
        /\ \/ db' = db
           \/ \E o \in runLua(db, now, flight[c].cmd.body) : db' = o.db
    BY <1>6 DEF Eval, Waits
  <2>2. flight[c].cmd.body \in Bodies \cup Stored
    BY <2>1, ScriptInFlight
  <2>3. Len(flight[c].cmd.body) \in Nat
    BY <2>2, BodiesAssumption
  <2>4. Shape(db')
    BY <1>1, <2>1, <2>3, ScriptShape
  <2> QED BY <1>4, <2>1, <2>4
<1>7. ASSUME NEW c \in Conns, ScriptLoad(c) \/ ScriptExists(c) \/ ScriptFlush(c) PROVE InOrder'
  <2>1. Answered(c) /\ db' = db
    BY <1>7 DEF ScriptLoad, ScriptExists, ScriptFlush
  <2> QED BY <1>1, <1>4, <2>1
<1>8. ASSUME now' \in Nat, now <= now', flight' = flight, db' = db PROVE InOrder'
  <2>1. now <= now' /\ now \in Nat /\ now' \in Nat /\ Start <= now'
    BY <1>1, <1>8, RequestsAssumption
  <2>2. ASSUME NEW c \in Conns, flight[c] # Idle PROVE Recorded(flight[c], now')
    <3>1. Recorded(flight[c], now)
      BY <1>1, <2>2
    <3> QED BY <2>1, <3>1 DEF Recorded
  <2> QED BY <1>1, <1>8, <2>1, <2>2 DEF InOrder
<1>9. CASE Pass
  <2>1. now' \in Nat /\ now <= now' /\ flight' = flight /\ db' = db
    BY <1>1, <1>9 DEF Pass, Tick
  <2> QED BY <1>8, <2>1
<1>10. CASE UNCHANGED serverVars
  BY <1>1, <1>8, <1>10 DEF serverVars
<1> QED BY <1>2, <1>3, <1>5, <1>6, <1>7, <1>9, <1>10 DEF ServerNext

\* It holds from the start.
LEMMA InOrderInvariant == ServerSpec => []InOrder
<1>1. ServerInit => InOrder
  <2> SUFFICES ASSUME ServerInit PROVE InOrder
    OBVIOUS
  <2>1. db = EmptyDB /\ now = Start /\ flight = [c \in Conns |-> Idle]
    BY DEF ServerInit, Init
  <2>2. Shape(db)
    BY <2>1 DEF Shape, SoundTags, EmptyDB
  <2> QED BY <2>1, <2>2, RequestsAssumption DEF InOrder
<1> QED BY <1>1, InOrderStep, PTL DEF ServerSpec

\* Arithmetic in 64 bits changes nothing that fits in them.
LEMMA WrapFits ==
    ASSUME NEW n \in Int64
    PROVE  Wrap64(n) = n /\ n \in Int
<1> DEFINE m == MaxInt + 1
           x == n + m
<1>1. m \in Nat /\ m >= 1 /\ n \in Int /\ -m <= n /\ n < m
  BY ClockAssumption DEF Int64
<1>2. x \in 0 .. (2 * m - 1)
  BY <1>1
<1>3. Wrap64(n) = (x % (2 * m)) - m
  BY <1>1, ClockAssumption DEF Wrap64
<1> HIDE DEF m, x
<1>4. x % (2 * m) = x
  BY <1>1, <1>2
<1>5. (x % (2 * m)) - m = n
  BY <1>1, <1>4 DEF x
<1> QED BY <1>1, <1>3, <1>5

\* A product of three factors, in another order.
LEMMA ThreeFactors ==
    ASSUME NEW m \in Nat, NEW p \in Nat, NEW q \in Nat
    PROVE  (m * p) * q = (p * q) * m
OBVIOUS

\* A lifetime up to a deadline, counted from one instant and applied at a later
\* one, ends no earlier than the second of the deadline, and late by no more than
\* the time between the two.
LEMMA DeadlineReached ==
    ASSUME NEW at \in Nat, NEW t \in Nat, at <= t, NEW dl \in Int, dl > UnixMilli(at)
    PROVE  LET exp == WithTTL(t, dl - UnixMilli(at))
           IN  /\ exp >= dl \div MsPerSec
               /\ exp <= (dl * TicksPerMs + (t - at + TicksPerMs)) \div TicksPerSec
<1> DEFINE M  == TicksPerMs
           P  == MsPerSec
           S  == TicksPerSec
           ms == UnixMilli(at)
           y  == t + (dl - ms) * M
           z  == dl * M + (t - at + M)
           q  == dl \div P
<1>1. M \in Nat \ {0} /\ P \in Nat \ {0} /\ S \in Nat \ {0} /\ S = M * P
  BY ClockAssumption, TicksPerSecType DEF TicksPerSec
<1>2. ms \in Nat /\ M * ms \in Nat /\ M * ms <= at /\ at < M * ms + M
  BY <1>1, DivBounds DEF UnixMilli
<1>3. WithTTL(t, dl - ms) = y \div S
  BY DEF WithTTL
<1>4. dl > ms
  OBVIOUS
<1> HIDE DEF M, P, S, ms
<1>5. dl \in Nat /\ dl * M \in Nat
  BY <1>1, <1>2, <1>4, TimesNat
<1>6. q \in Nat /\ P * q \in Nat /\ P * q <= dl
  BY <1>1, <1>5, DivBounds
<1>7. (dl - ms) * M = dl * M - M * ms
  BY <1>1, <1>2, <1>5
<1>8. y \in Nat /\ z \in Nat /\ dl * M <= y /\ y <= z
  <2> DEFINE u == dl * M
             v == M * ms
  <2>1. u \in Nat /\ v \in Nat /\ v <= at /\ at < v + M /\ at <= t /\ y = t + (u - v)
    BY <1>2, <1>5, <1>7
  <2>2. z = u + (t - at + M)
    OBVIOUS
  <2> HIDE DEF u, v, y, z
  <2>3. y \in Nat /\ z \in Nat /\ u <= y /\ y <= z
    BY <1>1, <2>1, <2>2
  <2> QED BY <2>3 DEF u
<1>9. S * q <= y
  <2> DEFINE w == P * q
  <2>1. S * q = w * M
    BY <1>1, <1>6, ThreeFactors
  <2>2. w * M <= dl * M
    <3>1. w \in Nat /\ w <= dl
      BY <1>6
    <3> HIDE DEF w
    <3> QED BY <1>1, <1>5, <3>1
  <2> HIDE DEF w, y
  <2>3. w * M \in Nat /\ dl * M \in Nat
    <3>1. w \in Nat
      BY <1>6 DEF w
    <3> QED BY <1>1, <1>5, <3>1, TimesNat
  <2> QED BY <1>8, <2>1, <2>2, <2>3
<1> HIDE DEF y, z, q
<1>10. q <= y \div S
  BY <1>1, <1>6, <1>8, <1>9, DivBetween
<1>11. y \div S <= z \div S
  BY <1>1, <1>8, DivMonotone
<1>12. y \div S \in Nat
  BY <1>1, <1>8, DivNat
<1> QED BY <1>3, <1>6, <1>10, <1>11, <1>12 DEF z, M, S, q, P, ms

\* A deadline that has passed ends within a millisecond, and does end.
LEMMA DeadlineMissed ==
    ASSUME NEW t \in Nat, t >= TicksPerSec
    PROVE  /\ WithTTL(t, 1) # 0
           /\ WithTTL(t, 1) <= (t + TicksPerMs) \div TicksPerSec
<1> DEFINE S == TicksPerSec
           y == t + TicksPerMs
<1>1. S \in Nat \ {0} /\ TicksPerMs \in Nat \ {0}
  BY ClockAssumption, TicksPerSecType
<1>2. WithTTL(t, 1) = y \div S
  BY <1>1 DEF WithTTL
<1>3. y \in Nat /\ S * 1 <= y
  BY <1>1
<1> HIDE DEF S, y
<1>4. 1 <= y \div S /\ y \div S \in Nat
  BY <1>1, <1>3, DivBetween, DivNat
<1> QED BY <1>2, <1>4 DEF y, S

\* What is left of the time up to a deadline, within 64 bits.
LEMMA TimeLeft ==
    ASSUME NEW dl \in 0 .. MaxInt, NEW ms \in 0 .. MaxInt
    PROVE  Wrap64(dl - ms) = dl - ms
<1>1. dl - ms \in Int64
  BY ClockAssumption DEF Int64
<1> QED BY <1>1, WrapFits

\* The lifetime that an absolute time makes.
LEMMA AbsoluteLifetime ==
    ASSUME NEW o \in {EXAT, PXAT}, NEW n, IsInt(n), NEW ms \in 0 .. MaxInt,
           NEW dl \in 0 .. MaxInt, dl = (IF o = EXAT THEN n * MsPerSec ELSE n)
    PROVE  Lifetime(o, n, ms) = IF dl - ms < 0 THEN 1 ELSE dl - ms
<1>1. Wrap64(dl - ms) = dl - ms
  BY TimeLeft
<1>2. dl \in Int64
  BY ClockAssumption DEF Int64
<1>3. o # EX /\ o # PX /\ EXAT # PXAT
  BY OptionsAssumption
<1>4. CASE o = EXAT
  <2>1. dl = n * MsPerSec
    BY <1>4
  <2>2. Wrap64(n * MsPerSec) = dl
    BY <1>2, <2>1, WrapFits
  <2>3. Lifetime(o, n, ms) = (IF Wrap64(Wrap64(n * MsPerSec) - ms) < 0 THEN 1
                              ELSE Wrap64(Wrap64(n * MsPerSec) - ms))
    BY <1>3, <1>4 DEF Lifetime
  <2> QED BY <1>1, <2>2, <2>3
<1>5. CASE o = PXAT
  <2>1. dl = n
    BY <1>3, <1>5
  <2>2. Lifetime(o, n, ms) = (IF Wrap64(n - ms) < 0 THEN 1 ELSE Wrap64(n - ms))
    BY <1>3, <1>5 DEF Lifetime
  <2> QED BY <1>1, <2>1, <2>2
<1> QED BY <1>4, <1>5

\* The command of a SET whose last lifetime is an absolute time.
LEMMA DeadlineCommand ==
    ASSUME NEW in \in Inputs, Accepts(in), in.name = "SET", NEW ms \in 0 .. MaxInt,
           NEW dl \in LastDeadline(in), dl \in 0 .. MaxInt
    PROVE  LET c == Handle(in, ms)
           IN  /\ c.op = "SET" /\ c.key = in.args[1] /\ c.key \in Keys
               /\ c.args = <<in.args[2]>> /\ in.args[2] \in Words \cup Int64
               /\ c.ttl = IF dl - ms < 0 THEN 1 ELSE dl - ms
<1> DEFINE a       == in.args
           c       == Handle(in, ms)
           at(S)   == {i \in OptionsAt(a, Timed) : a[i] \in S}
           last(S) == CHOOSE i \in at(S) : \A j \in at(S) : j <= i
           ttl     == IF at(Timed) = {} THEN 0
                      ELSE Lifetime(a[last(Timed)], a[last(Timed) + 1], ms)
           cond    == IF at({NX, XX}) = {} THEN ""
                      ELSE IF a[last({NX, XX})] = NX THEN "NX" ELSE "XX"
           get     == at({GET}) # {}
<1>1. a \in Seq(Arguments)
  BY InputsAssumption
<1>2. /\ \A i \in Positions(in).keys : a[i] \in Keys
      /\ \A i \in Positions(in).texts : a[i] \in Words \cup Int64
  BY InputsAssumption
<1>3. ArityOK(in) /\ OptionsOK(a)
  BY DEF Accepts
<1>4. Len(a) >= 2 /\ Len(a) \in Nat
  BY <1>1, <1>3, Arities
<1>5. a[1] \in Keys /\ a[2] \in Words \cup Int64
  BY <1>2, <1>4 DEF Positions, StringOps
<1>6. c = SetCommand(a, Timed, ms)
  BY DEF Handle
<1>7. c = [Cmd("SET", a[1], <<a[2]>>) EXCEPT !.ttl = ttl, !.cond = cond, !.get = get]
  BY <1>6 DEF SetCommand
<1>8. PICK i \in at(Timed) :
         /\ \A j \in at(Timed) : j <= i
         /\ a[i] \in {EXAT, PXAT}
         /\ dl = (IF a[i] = EXAT THEN a[i + 1] * MsPerSec ELSE a[i + 1])
  BY DEF LastDeadline, TimesAt
<1>9. last(Timed) = i
  <2>1. at(Timed) \subseteq 1 .. Len(a)
    BY <1>4 DEF OptionsAt
  <2>2. last(Timed) \in at(Timed) /\ \A j \in at(Timed) : j <= last(Timed)
    BY <1>8
  <2> DEFINE m == last(Timed)
  <2> HIDE DEF m
  <2>3. m \in at(Timed) /\ i <= m /\ m <= i
    BY <1>8, <2>2 DEF m
  <2>4. m = i
    BY <2>1, <2>3, <1>4
  <2> QED BY <2>4 DEF m
<1>10. IsInt(a[i + 1])
  BY <1>3, <1>8 DEF OptionsOK
<1>11. ttl = Lifetime(a[i], a[i + 1], ms)
  <2> DEFINE m == last(Timed)
  <2>1. m = i /\ at(Timed) # {}
    BY <1>8, <1>9
  <2>2. ttl = Lifetime(a[m], a[m + 1], ms)
    BY <2>1
  <2> HIDE DEF m, ttl
  <2> QED BY <2>1, <2>2
<1> HIDE DEF c, ttl, cond, get
<1>12. /\ c.op = "SET" /\ c.key = a[1] /\ c.args = <<a[2]>> /\ c.ttl = ttl
  BY <1>7 DEF Cmd
<1>13. ttl = IF dl - ms < 0 THEN 1 ELSE dl - ms
  BY <1>8, <1>10, <1>11, AbsoluteLifetime
<1> QED BY <1>5, <1>12, <1>13 DEF c

\* The expiry that a SET leaves when it writes.
LEMMA SetExpiry ==
    ASSUME NEW d, Shape(d), NEW t, NEW c, c.op = "SET", c.key \in Keys,
           NEW v \in Words \cup Int64, c.args = <<v>>, NEW o \in Run(d, t, c), o.db # d
    PROVE  o.db.K[c.key].exp = IF c.ttl > 0 THEN WithTTL(t, c.ttl) ELSE 0
<1> DEFINE e == Decode(c)
<1>1. ~Malformed(c) /\ ~Panics(c)
  BY SetDecoded
<1>2. e = [op |-> "SET", key |-> c.key, val |-> <<v>>, ttl |-> c.ttl, cond |-> c.cond,
           get |-> c.get]
  BY SetDecoded
<1>3. e.op = "SET" /\ e.key = c.key /\ e.ttl = c.ttl
  BY <1>2
<1>4. o \in applyCmdInTxn(d, t, e)
  BY <1>1 DEF Run
<1> HIDE DEF e
<1>5. o = SET(d, t, e)
  BY <1>3, <1>4 DEF applyCmdInTxn
<1>6. o.db = d \/ o.db = setValue(d, t, e.key, Str(e.val), "string", e.ttl)
  BY <1>5 DEF SET, Typed, Fail, Outcome
<1>7. DOMAIN d.K = Keys
  BY DEF Shape
<1> QED BY <1>3, <1>6, <1>7 DEF setValue

\* The clock that the run of the server is bounded by fits in 64 bits.
ClockFits == MaxNow \in Nat /\ Start <= MaxNow /\ UnixMilli(MaxNow) <= MaxInt

\* It never passes its bound.
LEMMA ClockBounded ==
    ASSUME ClockFits
    PROVE  ServerSpec => [](now \in Nat /\ now <= MaxNow)
<1> DEFINE Inv == now \in Nat /\ now <= MaxNow
<1>1. ServerInit => Inv
  BY RequestsAssumption DEF ServerInit, Init, ClockFits
<1>2. Inv /\ [ServerNext]_serverVars => Inv'
  <2> SUFFICES ASSUME Inv, [ServerNext]_serverVars PROVE Inv'
    OBVIOUS
  <2>1. CASE Pass
    BY <2>1 DEF Pass, Tick, ClockFits
  <2>2. ASSUME NEW c \in Conns,
               \/ Receive(c) \/ ReceiveScript(c) \/ Commit(c) \/ Eval(c)
               \/ ScriptLoad(c) \/ ScriptExists(c) \/ ScriptFlush(c)
        PROVE  now' = now
    BY <2>2 DEF Receive, ReceiveScript, Submit, Commit, Eval, ScriptLoad, ScriptExists,
                ScriptFlush, Answered
  <2>3. CASE UNCHANGED serverVars
    BY <2>3 DEF serverVars
  <2> QED BY <2>1, <2>2, <2>3 DEF ServerNext
<1> QED BY <1>1, <1>2, PTL DEF ServerSpec

\* What DeadlinesHold says of the end of a command.
Kept(f, d, t, dl) ==
    LET k    == f.in.args[1]
        ms   == UnixMilli(f.at)
        wait == t - f.at + TicksPerMs
    IN  /\ dl > ms => /\ d.K[k].exp >= dl \div MsPerSec
                      /\ d.K[k].exp <= (dl * TicksPerMs + wait) \div TicksPerSec
        /\ dl < ms => /\ d.K[k].exp # 0
                      /\ d.K[k].exp <= (t + TicksPerMs) \div TicksPerSec

\* A SET that is applied, some time after it came, keeps its deadline.
LEMMA DeadlineKept ==
    ASSUME NEW d, Shape(d), NEW t \in Nat, t >= TicksPerSec, NEW f,
           f.in \in Inputs, Accepts(f.in), f.in.name = "SET",
           f.at \in Nat, f.at <= t, UnixMilli(f.at) <= MaxInt,
           f.cmd = Handle(f.in, UnixMilli(f.at)),
           NEW o \in Run(d, t, f.cmd), o.db # d,
           NEW dl \in LastDeadline(f.in), dl \in 0 .. MaxInt
    PROVE  Kept(f, o.db, t, dl)
<1> DEFINE ms == UnixMilli(f.at)
           c  == f.cmd
           k  == f.in.args[1]
           x  == o.db.K[k].exp
<1>1. ms \in Nat /\ ms \in 0 .. MaxInt
  <2>1. ms \in Nat
    BY ClockAssumption, DivNat DEF UnixMilli
  <2> QED BY <2>1, ClockAssumption
<1> HIDE DEF ms
<1>2. /\ c.op = "SET" /\ c.key = k /\ c.key \in Keys
      /\ c.args = <<f.in.args[2]>> /\ f.in.args[2] \in Words \cup Int64
      /\ c.ttl = IF dl - ms < 0 THEN 1 ELSE dl - ms
  BY <1>1, DeadlineCommand DEF ms
<1> HIDE DEF c, k
<1>3. o \in Run(d, t, c)
  BY DEF c
<1>4. x = IF c.ttl > 0 THEN WithTTL(t, c.ttl) ELSE 0
  BY <1>2, <1>3, SetExpiry
<1> HIDE DEF x
<1>5. dl \in Int
  OBVIOUS
<1>6. ASSUME dl > ms
      PROVE  /\ x >= dl \div MsPerSec
             /\ x <= (dl * TicksPerMs + (t - f.at + TicksPerMs)) \div TicksPerSec
  <2>1. c.ttl = dl - ms /\ c.ttl > 0
    BY <1>1, <1>2, <1>5, <1>6
  <2>2. x = WithTTL(t, dl - ms)
    BY <1>4, <2>1
  <2> QED BY <1>5, <1>6, <2>2, DeadlineReached DEF ms
<1>7. ASSUME dl < ms PROVE x # 0 /\ x <= (t + TicksPerMs) \div TicksPerSec
  <2>1. c.ttl = 1
    BY <1>1, <1>2, <1>5, <1>7
  <2>2. x = WithTTL(t, 1)
    BY <1>4, <2>1
  <2> QED BY <2>2, DeadlineMissed
<1> QED BY <1>6, <1>7 DEF Kept, ms, x, k

\* A key that a SET with an absolute expiry has written does expire, never
\* before the second of its deadline and late by no more than the command
\* waited in Raft: whatever the other connections send and the scripts do
\* meanwhile.  The deadlines and the clock are such that the handler's
\* arithmetic in milliseconds stays within 64 bits.
THEOREM DeadlinesAlwaysHold ==
    ASSUME ClockFits,
           \A in \in Inputs :
              Accepts(in) /\ in.name = "SET" => LastDeadline(in) \subseteq 0 .. MaxInt
    PROVE  ServerSpec => DeadlinesHold
<1> DEFINE Ends(c) == Waits(c, {"SET"}) /\ flight'[c] = Idle
           Clock   == now \in Nat /\ now <= MaxNow
           Goal(c) == flight[c].in.name = "SET" =>
                         \A dl \in LastDeadline(flight[c].in) :
                            db' # db => Kept(flight[c], db', now, dl)
<1>1. ASSUME InOrder, Clock, [ServerNext]_serverVars, NEW c \in Conns, Ends(c)
      PROVE  Goal(c)
  <2>1. /\ now \in Nat /\ Start <= now /\ DOMAIN flight = Conns /\ Shape(db)
        /\ \A d \in Conns : flight[d] # Idle => Recorded(flight[d], now)
    BY <1>1 DEF InOrder
  <2>2. flight[c] # Idle /\ flight[c].cmd.op = "SET" /\ flight'[c] = Idle
    BY <1>1 DEF Waits
  <2>3. ASSUME NEW d \in Conns, Answered(d) PROVE d = c
    <3>1. flight' = [flight EXCEPT ![d] = Idle]
      BY <2>3 DEF Answered
    <3> QED BY <2>1, <2>2, <3>1, Replaced
  <2>4. ASSUME NEW d \in Conns, Commit(d) PROVE Goal(c)
    <3> SUFFICES ASSUME flight[c].in.name = "SET", NEW dl \in LastDeadline(flight[c].in),
                        db' # db
                 PROVE  Kept(flight[c], db', now, dl)
      OBVIOUS
    <3> DEFINE f == flight[c]
    <3>1. d = c
      BY <2>3, <2>4 DEF Commit
    <3>2. PICK o \in Run(db, now, f.cmd) : db' = o.db
      BY <2>4, <3>1 DEF Commit
    <3>3. Recorded(f, now)
      BY <2>1, <2>2
    <3>4. f.cmd.op \notin ScriptOps
      BY <2>2 DEF ScriptOps
    <3> HIDE DEF f
    <3>5. /\ f.in \in Inputs /\ Accepts(f.in) /\ f.at \in Nat /\ f.at <= now
          /\ f.cmd = Handle(f.in, UnixMilli(f.at))
      BY <3>3, <3>4 DEF Recorded
    <3>6. dl \in 0 .. MaxInt
      BY <3>5 DEF f
    <3>7. UnixMilli(f.at) <= MaxInt
      <4>1. f.at <= MaxNow /\ MaxNow \in Nat
        BY <1>1, <2>1, <3>5 DEF ClockFits
      <4>2. UnixMilli(f.at) <= UnixMilli(MaxNow)
        BY <3>5, <4>1, ClockAssumption, DivMonotone DEF UnixMilli
      <4>3. UnixMilli(f.at) \in Nat /\ UnixMilli(MaxNow) \in Nat
        BY <3>5, <4>1, ClockAssumption, DivNat DEF UnixMilli
      <4> QED BY <4>2, <4>3, ClockAssumption DEF ClockFits
    <3>8. now >= TicksPerSec
      BY <2>1, RequestsAssumption, TicksPerSecType
    <3>9. o.db # db /\ f.in.name = "SET" /\ dl \in LastDeadline(f.in)
      BY <3>2 DEF f
    <3>10. Kept(f, o.db, now, dl)
      BY <2>1, <3>5, <3>6, <3>7, <3>8, <3>9, DeadlineKept
    <3> QED BY <3>2, <3>10 DEF f
  <2>5. ASSUME NEW d \in Conns, Eval(d) PROVE FALSE
    <3>1. d = c /\ flight[d].cmd.op \in {"EVAL", "EVALSHA"}
      BY <2>3, <2>5 DEF Eval, Waits
    <3> QED BY <2>2, <3>1
  <2>6. ASSUME db' = db PROVE Goal(c)
    BY <2>6
  <2>7. ASSUME NEW d \in Conns,
               \/ Receive(d) \/ ReceiveScript(d) \/ ScriptLoad(d) \/ ScriptExists(d)
               \/ ScriptFlush(d)
        PROVE  db' = db
    BY <2>7 DEF Receive, ReceiveScript, Submit, ScriptLoad, ScriptExists, ScriptFlush
  <2>8. Pass => db' = db
    BY DEF Pass, Tick
  <2>9. UNCHANGED serverVars => db' = db
    BY DEF serverVars
  <2> HIDE DEF Goal
  <2> QED BY <1>1, <2>4, <2>5, <2>6, <2>7, <2>8, <2>9 DEF ServerNext
<1>2. InOrder /\ Clock /\ [ServerNext]_serverVars
      => [\A c \in Conns : Ends(c) => Goal(c)]_serverVars
  BY <1>1
<1>3. ServerSpec => []InOrder
  BY InOrderInvariant
<1>4. ServerSpec => []Clock
  BY ClockBounded
<1>5. ServerSpec => [][\A c \in Conns : Ends(c) => Goal(c)]_serverVars
  BY <1>2, <1>3, <1>4, PTL DEF ServerSpec
<1> QED BY <1>5 DEF DeadlinesHold, Kept

(***************************************************************************)
(* The forms of a lifetime.                                                *)
(***************************************************************************)
\* A lifetime of whole seconds ends as many seconds later.
LEMMA SecondsAhead ==
    ASSUME NEW t \in Nat, NEW s \in Nat
    PROVE  WithTTL(t, s * MsPerSec) = (t \div TicksPerSec) + s
<1> DEFINE M   == TicksPerMs
           P   == MsPerSec
           S   == TicksPerSec
           sec == t \div S
           r   == sec + s
           x   == t + (s * P) * M
<1>1. M \in Nat \ {0} /\ P \in Nat \ {0} /\ S \in Nat \ {0} /\ S = M * P
  BY ClockAssumption, TicksPerSecType DEF TicksPerSec
<1>2. WithTTL(t, s * P) = x \div S
  BY DEF WithTTL
<1> HIDE DEF M, P, S
<1>3. sec \in Nat /\ S * sec \in Nat /\ S * sec <= t /\ t < S * sec + S
  BY <1>1, DivBounds
<1> HIDE DEF sec
<1>4. (s * P) * M = S * s /\ S * s \in Nat
  <2>1. (M * P) * s = (P * s) * M
    BY <1>1, ThreeFactors
  <2>2. P * s = s * P
    BY <1>1
  <2> QED BY <1>1, <2>1, <2>2, TimesNat
<1>5. S * r = S * sec + S * s
  BY <1>1, <1>3
<1>6. r \in Nat /\ x \in Nat /\ S * r <= x /\ x < S * r + S
  <2> DEFINE u == S * sec
             w == S * s
  <2>1. u \in Nat /\ w \in Nat /\ u <= t /\ t < u + S /\ x = t + w /\ S * r = u + w
    BY <1>3, <1>4, <1>5
  <2> HIDE DEF u, w, x, r
  <2>2. x \in Nat /\ S * r <= x /\ x < S * r + S
    BY <1>1, <2>1
  <2> QED BY <1>3, <2>2 DEF r
<1> HIDE DEF x, r
<1>7. r <= x \div S /\ x \div S <= r /\ x \div S \in Nat
  BY <1>1, <1>6, DivBetween, DivNat
<1>8. x \div S = r
  BY <1>6, <1>7
<1> QED BY <1>2, <1>8 DEF r, sec, S, P

\* The time up to the beginning of a later second is a lifetime that ends then.
LEMMA SecondReached ==
    ASSUME NEW t \in Nat, NEW s \in Nat \ {0}
    PROVE  LET dl == ((t \div TicksPerSec) + s) * MsPerSec
           IN  /\ dl \in Nat /\ dl > UnixMilli(t)
               /\ WithTTL(t, dl - UnixMilli(t)) = (t \div TicksPerSec) + s
<1> DEFINE M   == TicksPerMs
           P   == MsPerSec
           S   == TicksPerSec
           sec == t \div S
           r   == sec + s
           dl  == r * P
           ms  == UnixMilli(t)
           x   == t + (dl - ms) * M
<1>1. M \in Nat \ {0} /\ P \in Nat \ {0} /\ S \in Nat \ {0} /\ S = M * P
  BY ClockAssumption, TicksPerSecType DEF TicksPerSec
<1>2. WithTTL(t, dl - ms) = x \div S
  BY DEF WithTTL
<1>3. ms \in Nat /\ M * ms \in Nat /\ M * ms <= t /\ t < M * ms + M
  BY <1>1, DivBounds DEF UnixMilli
<1> HIDE DEF M, P, S, ms
<1>4. sec \in Nat /\ S * sec \in Nat /\ S * sec <= t /\ t < S * sec + S
  BY <1>1, DivBounds
<1> HIDE DEF sec
<1>5. r \in Nat /\ r >= sec + 1 /\ S * r \in Nat
  BY <1>1, <1>4, TimesNat
<1>6. S * sec + S <= S * r
  BY <1>1, <1>4, <1>5
<1> HIDE DEF r
<1>7. dl \in Nat /\ dl * M = S * r
  <2>1. (M * P) * r = (P * r) * M
    BY <1>1, <1>5, ThreeFactors
  <2>2. P * r = r * P
    BY <1>1, <1>5
  <2> QED BY <1>1, <1>5, <2>1, <2>2, TimesNat
<1> HIDE DEF dl
<1>8. (dl - ms) * M = dl * M - M * ms
  BY <1>1, <1>3, <1>7
<1>9. M <= S
  BY <1>1
<1>10. x \in Nat /\ S * r <= x /\ x < S * r + S
  <2> DEFINE u == S * r
             w == M * ms
  <2>1. u \in Nat /\ w \in Nat /\ w <= t /\ t < w + M /\ x = t + (u - w)
    BY <1>3, <1>5, <1>7, <1>8
  <2> HIDE DEF u, w, x
  <2>2. x \in Nat /\ u <= x /\ x < u + S
    BY <1>1, <1>9, <2>1
  <2> QED BY <2>2 DEF u
<1>11. dl > ms
  <2> SUFFICES ASSUME dl <= ms PROVE FALSE
    BY <1>3, <1>7
  <2>1. M * dl <= M * ms
    BY <1>1, <1>3, <1>7
  <2>2. M * dl = S * r
    BY <1>1, <1>7
  <2> QED BY <1>1, <1>3, <1>4, <1>5, <1>6, <2>1, <2>2
<1> HIDE DEF x
<1>12. r <= x \div S /\ x \div S <= r /\ x \div S \in Nat
  BY <1>1, <1>5, <1>10, DivBetween, DivNat
<1>13. x \div S = r
  BY <1>5, <1>12
<1> QED BY <1>2, <1>7, <1>11, <1>13 DEF r, sec, S, P, ms, dl

\* A client command that arrives and is applied at once.
Applied(d, t, in) == (CHOOSE o \in Run(d, t, Handle(in, UnixMilli(t))) : TRUE).db

\* One command, and two.
LEMMA AfterOne ==
    ASSUME NEW k, NEW in
    PROVE  ExpiryAfter(k, <<in>>) = Applied(db, now, in).K[k].exp
<1> DEFINE ins == <<in>>
           F(r) == [i \in 0 .. Len(ins) |->
                       IF i = 0 THEN db ELSE Applied(r[i - 1], now, ins[i])]
           run  == CHOOSE r : r = F(r)
           g    == [i \in 0 .. 1 |-> IF i = 0 THEN db ELSE Applied(db, now, in)]
<1>1. Len(ins) = 1 /\ ins[1] = in
  OBVIOUS
<1> HIDE DEF ins
<1>2. g = F(g)
  <2>1. g[0] = db /\ DOMAIN g = 0 .. 1
    OBVIOUS
  <2>2. \A i \in 0 .. 1 :
           (IF i = 0 THEN db ELSE Applied(db, now, in))
           = (IF i = 0 THEN db ELSE Applied(g[i - 1], now, ins[i]))
    <3> HIDE DEF g
    <3> QED BY <1>1, <2>1
  <2> DEFINE G(i) == IF i = 0 THEN db ELSE Applied(g[i - 1], now, ins[i])
  <2>3. g = [i \in 0 .. 1 |-> G(i)]
    <3>1. \A i \in 0 .. 1 : (IF i = 0 THEN db ELSE Applied(db, now, in)) = G(i)
      BY <2>2
    <3> HIDE DEF G
    <3> QED BY <3>1
  <2> HIDE DEF g
  <2> QED BY <1>1, <2>3
<1>3. run = F(run)
  <2> HIDE DEF F, g
  <2> QED BY <1>2
<1>4. ExpiryAfter(k, ins) = run[Len(ins)].K[k].exp
  BY DEF ExpiryAfter, Applied
<1> HIDE DEF run
<1>5. run[0] = db /\ run[1] = Applied(run[0], now, in)
  BY <1>1, <1>3
<1>6. run[Len(ins)] = Applied(db, now, in)
  BY <1>1, <1>5
<1> QED BY <1>4, <1>6 DEF ins

(* Two commands one after the other. *)
LEMMA AfterTwo ==
    ASSUME NEW k, NEW in, NEW jn
    PROVE  ExpiryAfter(k, <<in, jn>>) = Applied(Applied(db, now, in), now, jn).K[k].exp
<1> DEFINE ins == <<in, jn>>
           F(r) == [i \in 0 .. Len(ins) |->
                       IF i = 0 THEN db ELSE Applied(r[i - 1], now, ins[i])]
           run  == CHOOSE r : r = F(r)
           d1   == Applied(db, now, in)
           d2   == Applied(d1, now, jn)
           E(i) == IF i = 0 THEN db ELSE IF i = 1 THEN d1 ELSE d2
           g    == [i \in 0 .. 2 |-> E(i)]
<1>1. Len(ins) = 2 /\ ins[1] = in /\ ins[2] = jn
  OBVIOUS
<1> HIDE DEF ins
<1>2. g = F(g)
  <2> DEFINE G(i) == IF i = 0 THEN db ELSE Applied(g[i - 1], now, ins[i])
  <2>1. g[0] = db /\ g[1] = d1 /\ E(0) = db /\ E(1) = d1 /\ E(2) = d2
    OBVIOUS
  <2> HIDE DEF g, E
  <2>2. G(0) = db /\ G(1) = Applied(g[0], now, ins[1]) /\ G(2) = Applied(g[1], now, ins[2])
    OBVIOUS
  <2>3. G(1) = d1 /\ G(2) = d2
    BY <1>1, <2>1, <2>2
  <2>4. \A i \in 0 .. 2 : E(i) = G(i)
    <3> HIDE DEF G, d1, d2
    <3> QED BY <2>1, <2>2, <2>3
  <2>5. g = [i \in 0 .. 2 |-> G(i)]
    <3> HIDE DEF G
    <3> QED BY <2>4 DEF g
  <2> QED BY <1>1, <2>5
<1>3. run = F(run)
  <2> HIDE DEF F, g
  <2> QED BY <1>2
<1>4. ExpiryAfter(k, ins) = run[Len(ins)].K[k].exp
  BY DEF ExpiryAfter, Applied
<1> HIDE DEF run, d1, d2
<1>5. /\ run[0] = db /\ run[1] = Applied(run[0], now, in)
      /\ run[2] = Applied(run[1], now, jn)
  BY <1>1, <1>3
<1>6. run[Len(ins)] = d2
  BY <1>1, <1>5 DEF d1, d2
<1> QED BY <1>4, <1>6 DEF ins, d1, d2

\* There is one way to choose from one.
LEMMA OnlyChoice == ASSUME NEW x PROVE (CHOOSE o \in {x} : TRUE) = x
OBVIOUS

\* The only outcome of a SET without a condition of a key that is no collection.
LEMMA SetRuns ==
    ASSUME NEW d, Shape(d), NEW t, NEW c, c.op = "SET", c.key \in Keys,
           NEW v \in Words \cup Int64, c.args = <<v>>, c.cond = "",
           Type(d, t, c.key) \in {"none", "string"}
    PROVE  LET n == (CHOOSE o \in Run(d, t, c) : TRUE).db
           IN  /\ n = setValue(d, t, c.key, Str(<<v>>), "string", c.ttl)
               /\ n.K[c.key].exp = IF c.ttl > 0 THEN WithTTL(t, c.ttl) ELSE 0
<1> DEFINE e == Decode(c)
<1>1. ~Malformed(c) /\ ~Panics(c)
  BY SetDecoded
<1>2. e = [op |-> "SET", key |-> c.key, val |-> <<v>>, ttl |-> c.ttl, cond |-> c.cond,
           get |-> c.get]
  BY SetDecoded
<1>3. e.op = "SET" /\ e.key = c.key /\ e.ttl = c.ttl /\ e.cond = c.cond /\ e.val = <<v>>
  <2> HIDE DEF e
  <2>1. e.op = "SET" /\ e.key = c.key /\ e.ttl = c.ttl
    BY <1>2
  <2>2. e.cond = c.cond
    BY <1>2
  <2>3. e.val = <<v>>
    BY <1>2
  <2> QED BY <2>1, <2>2, <2>3
<1>4. Run(d, t, c) = applyCmdInTxn(d, t, e)
  BY <1>1 DEF Run
<1> HIDE DEF e
<1>5. applyCmdInTxn(d, t, e) = {SET(d, t, e)}
  BY <1>3 DEF applyCmdInTxn
<1>6. ~WrongType(d, t, c.key, "string") /\ ~DecodeFails(d, t, c.key, "string")
  <2>1. getExistingType(d, t, c.key) \in Kinds
    BY DEF getExistingType, Live, Shape, Kinds
  <2>2. "none" \notin Kinds
    BY DEF Kinds
  <2>3. Exists(d, t, c.key) => getExistingType(d, t, c.key) = "string"
    BY <2>1, <2>2 DEF Type
  <2> QED BY <2>3 DEF WrongType, DecodeFails, ensureExistingType
<1>7. setKey(e, Exists(d, t, e.key))
  BY <1>3 DEF setKey
<1>8. SET(d, t, e).db = setValue(d, t, e.key, Str(e.val), "string", e.ttl)
  BY <1>3, <1>6, <1>7 DEF SET, Typed, Outcome
<1>9. (CHOOSE o \in Run(d, t, c) : TRUE) = SET(d, t, e)
  <2>1. Run(d, t, c) = {SET(d, t, e)}
    BY <1>4, <1>5
  <2> QED BY <2>1, OnlyChoice
<1>10. (CHOOSE o \in Run(d, t, c) : TRUE).db
       = setValue(d, t, c.key, Str(<<v>>), "string", c.ttl)
  BY <1>3, <1>8, <1>9
<1>11. DOMAIN d.K = Keys
  BY DEF Shape
<1>12. setValue(d, t, c.key, Str(<<v>>), "string", c.ttl).K[c.key].exp
       = IF c.ttl > 0 THEN WithTTL(t, c.ttl) ELSE 0
  BY <1>11 DEF setValue
<1> QED BY <1>10, <1>12

\* SET with one timed option.
LEMMA OneTimedOption ==
    ASSUME NEW a, Len(a) = 4, a[3] \in Timed, NEW ms, NEW c, c = Handle(Send("SET", a), ms)
    PROVE  /\ c.op = "SET" /\ c.key = a[1] /\ c.args = <<a[2]>> /\ c.cond = ""
           /\ c.ttl = Lifetime(a[3], a[4], ms)
<1> DEFINE at(S)   == {i \in OptionsAt(a, Timed) : a[i] \in S}
           last(S) == CHOOSE i \in at(S) : \A j \in at(S) : j <= i
           ttl     == IF at(Timed) = {} THEN 0
                      ELSE Lifetime(a[last(Timed)], a[last(Timed) + 1], ms)
           cond    == IF at({NX, XX}) = {} THEN ""
                      ELSE IF a[last({NX, XX})] = NX THEN "NX" ELSE "XX"
           get     == at({GET}) # {}
<1>1. Len(a) = 4 /\ a[3] \in Timed
  OBVIOUS
<1>2. c = SetCommand(a, Timed, ms)
  BY DEF Handle, Send
<1>3. c = [Cmd("SET", a[1], <<a[2]>>) EXCEPT !.ttl = ttl, !.cond = cond, !.get = get]
  BY <1>2 DEF SetCommand
<1>4. OptionsAt(a, Timed) = {3}
  <2>0. Len(a) \in Nat
    BY <1>1
  <2>1. PICK f : /\ Marks(f, a, Timed, Len(a))
                 /\ OptionsAt(a, Timed) = {i \in 3 .. Len(a) : f[i]}
    BY <2>0, OptionsAreMarked
  <2>2. f[3] = Reads(f, a, Timed, 3) /\ f[4] = Reads(f, a, Timed, 4)
    BY <1>1, <2>1 DEF Marks
  <2>3. f[3]
    BY <2>2 DEF Reads
  <2>4. ~f[4]
    <3>1. Reads(f, a, Timed, 4) = ~(f[3] /\ a[3] \in Timed)
      BY DEF Reads
    <3> QED BY <1>1, <2>2, <2>3, <3>1
  <2>5. 3 .. Len(a) = {3, 4}
    BY <1>1
  <2> QED BY <2>1, <2>3, <2>4, <2>5
<1>5. at(Timed) = {3} /\ at({NX, XX}) = {}
  BY <1>1, <1>4, OptionsAssumption
<1>6. last(Timed) = 3
  BY <1>5
<1>7. ttl = Lifetime(a[3], a[4], ms)
  <2> DEFINE m == last(Timed)
  <2>1. m = 3 /\ at(Timed) # {}
    BY <1>5, <1>6
  <2>2. ttl = Lifetime(a[m], a[m + 1], ms)
    BY <2>1
  <2> HIDE DEF m, ttl
  <2> QED BY <1>1, <2>1, <2>2
<1>8. cond = ""
  BY <1>5
<1> HIDE DEF ttl, cond, get
<1>9. c.op = "SET" /\ c.key = a[1] /\ c.args = <<a[2]>> /\ c.ttl = ttl /\ c.cond = cond
  BY <1>3 DEF Cmd
<1> QED BY <1>7, <1>8, <1>9

\* What a SET with one timed option leaves.
LEMMA FormExpiry ==
    ASSUME Shape(db), NEW k \in Keys, NEW v \in Words, Type(db, now, k) \in {"none", "string"},
           NEW o \in Timed, NEW n, NEW ttl \in Int, ttl > 0,
           Lifetime(o, n, UnixMilli(now)) = ttl
    PROVE  ExpiryAfter(k, <<Send("SET", <<k, v, o, n>>)>>) = WithTTL(now, ttl)
<1> DEFINE in == Send("SET", <<k, v, o, n>>)
           c  == Handle(in, UnixMilli(now))
<1>1. c.op = "SET" /\ c.key = k /\ c.args = <<v>> /\ c.cond = "" /\ c.ttl = ttl
  <2> DEFINE a  == <<k, v, o, n>>
             ms == UnixMilli(now)
  <2>1. /\ c = Handle(Send("SET", a), ms) /\ Len(a) = 4
        /\ a[1] = k /\ a[2] = v /\ a[3] = o /\ a[4] = n
    OBVIOUS
  <2>2. Lifetime(o, n, ms) = ttl
    OBVIOUS
  <2> HIDE DEF c, ms, a
  <2>3. /\ c.op = "SET" /\ c.key = a[1] /\ c.args = <<a[2]>> /\ c.cond = ""
        /\ c.ttl = Lifetime(a[3], a[4], ms)
    BY <2>1, OneTimedOption
  <2> QED BY <2>1, <2>2, <2>3
<1>2. Applied(db, now, in) = (CHOOSE x \in Run(db, now, c) : TRUE).db
  BY DEF Applied
<1>3. ExpiryAfter(k, <<in>>) = Applied(db, now, in).K[k].exp
  BY AfterOne
<1> HIDE DEF in, c
<1>4. v \in Words \cup Int64
  OBVIOUS
<1>5. Type(db, now, c.key) \in {"none", "string"} /\ c.key \in Keys
  BY <1>1
<1>6. (CHOOSE x \in Run(db, now, c) : TRUE).db.K[c.key].exp
      = IF c.ttl > 0 THEN WithTTL(now, c.ttl) ELSE 0
  BY <1>1, <1>4, <1>5, SetRuns
<1>7. ExpiryAfter(k, <<in>>) = WithTTL(now, ttl)
  BY <1>1, <1>2, <1>3, <1>6
<1> QED BY <1>7 DEF in

\* SETEX.
LEMMA SetexExpiry ==
    ASSUME Shape(db), NEW k \in Keys, NEW v \in Words, Type(db, now, k) \in {"none", "string"},
           NEW s, NEW ttl \in Int, ttl > 0, Wrap64(s * MsPerSec) = ttl
    PROVE  ExpiryAfter(k, <<Send("SETEX", <<k, s, v>>)>>) = WithTTL(now, ttl)
<1> DEFINE in == Send("SETEX", <<k, s, v>>)
           c  == Handle(in, UnixMilli(now))
<1>1. c.op = "SET" /\ c.key = k /\ c.args = <<v>> /\ c.cond = "" /\ c.ttl = ttl
  <2>1. c = [Cmd("SET", k, <<v>>) EXCEPT !.ttl = ttl]
    BY DEF Handle, Send
  <2> HIDE DEF c
  <2> QED BY <2>1 DEF Cmd
<1>2. Applied(db, now, in) = (CHOOSE x \in Run(db, now, c) : TRUE).db
  BY DEF Applied
<1>3. ExpiryAfter(k, <<in>>) = Applied(db, now, in).K[k].exp
  BY AfterOne
<1> HIDE DEF in, c
<1>4. v \in Words \cup Int64
  OBVIOUS
<1>5. Type(db, now, c.key) \in {"none", "string"} /\ c.key \in Keys
  BY <1>1
<1>6. (CHOOSE x \in Run(db, now, c) : TRUE).db.K[c.key].exp
      = IF c.ttl > 0 THEN WithTTL(now, c.ttl) ELSE 0
  BY <1>1, <1>4, <1>5, SetRuns
<1>7. ExpiryAfter(k, <<in>>) = WithTTL(now, ttl)
  BY <1>1, <1>2, <1>3, <1>6
<1> QED BY <1>7 DEF in

\* SET without options.
LEMMA NoOptions ==
    ASSUME NEW a, Len(a) = 2, NEW ms, NEW c, c = Handle(Send("SET", a), ms)
    PROVE  c.op = "SET" /\ c.key = a[1] /\ c.args = <<a[2]>> /\ c.cond = "" /\ c.ttl = 0
<1> DEFINE at(S)   == {i \in OptionsAt(a, Timed) : a[i] \in S}
           last(S) == CHOOSE i \in at(S) : \A j \in at(S) : j <= i
           ttl     == IF at(Timed) = {} THEN 0
                      ELSE Lifetime(a[last(Timed)], a[last(Timed) + 1], ms)
           cond    == IF at({NX, XX}) = {} THEN ""
                      ELSE IF a[last({NX, XX})] = NX THEN "NX" ELSE "XX"
           get     == at({GET}) # {}
<1>1. Len(a) = 2
  OBVIOUS
<1>2. c = SetCommand(a, Timed, ms)
  BY DEF Handle, Send
<1>3. c = [Cmd("SET", a[1], <<a[2]>>) EXCEPT !.ttl = ttl, !.cond = cond, !.get = get]
  BY <1>2 DEF SetCommand
<1>4. OptionsAt(a, Timed) = {}
  <2>1. 3 .. Len(a) = {}
    BY <1>1
  <2> QED BY <2>1 DEF OptionsAt
<1>5. ttl = 0 /\ cond = ""
  BY <1>4
<1> HIDE DEF ttl, cond, get
<1>6. c.op = "SET" /\ c.key = a[1] /\ c.args = <<a[2]>> /\ c.ttl = ttl /\ c.cond = cond
  BY <1>3 DEF Cmd
<1> QED BY <1>5, <1>6

\* EXPIRE of a key that is there.
LEMMA ExpireRuns ==
    ASSUME NEW d, Shape(d), NEW t, NEW k \in Keys, Exists(d, t, k), NEW s, NEW ms
    PROVE  (CHOOSE o \in Run(d, t, Handle(Send("EXPIRE", <<k, s>>), ms)) : TRUE).db.K[k].exp
           = WithTTL(t, Wrap64(s * MsPerSec))
<1> DEFINE c   == Handle(Send("EXPIRE", <<k, s>>), ms)
           e   == Decode(c)
           ttl == Wrap64(s * MsPerSec)
           x   == [val |-> d.K[k].val, exp |-> WithTTL(t, ttl)]
           m   == [d EXCEPT !.K = [@ EXCEPT ![k] = x]]
<1>1. c.op = "EXPIRE" /\ c.key = k /\ c.ttl = ttl
  <2>1. c = [Cmd("EXPIRE", k, << >>) EXCEPT !.ttl = ttl]
    BY DEF Handle, Send
  <2> HIDE DEF c, ttl
  <2> QED BY <2>1 DEF Cmd
<1> HIDE DEF c, ttl
<1>2. ~Malformed(c) /\ ~Panics(c)
  BY <1>1 DEF Malformed, Panics, StoreOps, StringOps, PairOps, CountOps, BoundOps
<1>3. e = [op |-> "EXPIRE", key |-> c.key, ttl |-> c.ttl]
  BY <1>1 DEF Decode, CountOps, WordOps
<1>4. Run(d, t, c) = applyCmdInTxn(d, t, e)
  BY <1>2 DEF Run
<1> HIDE DEF e
<1>5. e.op = "EXPIRE" /\ e.key = k /\ e.ttl = ttl
  BY <1>1, <1>3
<1>6. Run(d, t, c) = {EXPIRE(d, t, e)}
  BY <1>4, <1>5 DEF applyCmdInTxn
<1>7. EXPIRE(d, t, e) = Outcome(m, IntReply(1))
  BY <1>5 DEF EXPIRE
<1>8. m.K[k].exp = WithTTL(t, ttl)
  <2>1. d = [K |-> d.K, T |-> d.T] /\ DOMAIN d.K = Keys
    BY DEF Shape
  <2>2. x.exp = WithTTL(t, ttl)
    OBVIOUS
  <2> HIDE DEF x
  <2> QED BY <2>1, <2>2
<1> HIDE DEF m
<1>9. (CHOOSE o \in Run(d, t, c) : TRUE) = Outcome(m, IntReply(1))
  BY <1>6, <1>7, OnlyChoice
<1>10. (CHOOSE o \in Run(d, t, c) : TRUE).db = m
  <2> DEFINE y == CHOOSE o \in Run(d, t, c) : TRUE
  <2>1. y = Outcome(m, IntReply(1))
    BY <1>9
  <2> HIDE DEF y
  <2>2. y.db = m
    BY <2>1 DEF Outcome
  <2> QED BY <2>2 DEF y
<1> QED BY <1>8, <1>10 DEF c, ttl

\* EXPIRE after a plain SET.
LEMMA SetThenExpire ==
    ASSUME Shape(db), NEW k \in Keys, NEW v \in Words, Type(db, now, k) \in {"none", "string"},
           NEW s
    PROVE  ExpiryAfter(k, <<Send("SET", <<k, v>>), Send("EXPIRE", <<k, s>>)>>)
           = WithTTL(now, Wrap64(s * MsPerSec))
<1> DEFINE in == Send("SET", <<k, v>>)
           jn == Send("EXPIRE", <<k, s>>)
           ms == UnixMilli(now)
           c  == Handle(in, ms)
           d  == Applied(db, now, in)
           x  == [val |-> Str(<<v>>), exp |-> 0]
<1>1. c.op = "SET" /\ c.key = k /\ c.args = <<v>> /\ c.cond = "" /\ c.ttl = 0
  <2> DEFINE a == <<k, v>>
  <2>1. c = Handle(Send("SET", a), ms) /\ Len(a) = 2 /\ a[1] = k /\ a[2] = v
    OBVIOUS
  <2> HIDE DEF c, ms, a
  <2>2. c.op = "SET" /\ c.key = a[1] /\ c.args = <<a[2]>> /\ c.cond = "" /\ c.ttl = 0
    BY <2>1, NoOptions
  <2> QED BY <2>1, <2>2
<1>2. d = (CHOOSE o \in Run(db, now, c) : TRUE).db
  BY DEF Applied
<1>3. ExpiryAfter(k, <<in, jn>>) = Applied(d, now, jn).K[k].exp
  BY AfterTwo
<1>4. Applied(d, now, jn) = (CHOOSE o \in Run(d, now, Handle(jn, ms)) : TRUE).db
  BY DEF Applied
<1> HIDE DEF c, d
<1>5. v \in Words \cup Int64 /\ <<v>> \in Seq(Chunks)
  BY DEF Chunks
<1>6. Type(db, now, c.key) \in {"none", "string"} /\ c.key \in Keys
  BY <1>1
<1>7. (CHOOSE o \in Run(db, now, c) : TRUE).db
      = setValue(db, now, c.key, Str(<<v>>), "string", c.ttl)
  BY <1>1, <1>5, <1>6, SetRuns
<1>8. d = setValue(db, now, k, Str(<<v>>), "string", 0)
  BY <1>1, <1>2, <1>7
<1>9. Shape(d)
  BY <1>8, WritesKeepShape
<1>10. d.K[k] = x
  <2>1. DOMAIN db.K = Keys
    BY DEF Shape
  <2> QED BY <1>8, <2>1 DEF setValue
<1>11. Exists(d, now, k)
  <2>1. Str(<<v>>) \in Values
    BY <1>5 DEF Str, Values
  <2>2. x \in ValueEntries /\ x.exp = 0
    BY <2>1 DEF ValueEntries
  <2> HIDE DEF x
  <2> QED BY <1>10, <2>2, NoneAssumption DEF Exists, Live
<1>12. (CHOOSE o \in Run(d, now, Handle(jn, ms)) : TRUE).db.K[k].exp
       = WithTTL(now, Wrap64(s * MsPerSec))
  BY <1>9, <1>11, ExpireRuns
<1> QED BY <1>3, <1>4, <1>12

\* The ways to give a value a lifetime of some seconds (EX, SETEX, PX, EXAT,
\* PXAT, and EXPIRE after a plain SET) agree on its expiry, in every database
\* that clients and scripts can make, for every granularity of the clock: as
\* long as the millisecond of that expiry fits in 64 bits.
THEOREM LifetimeFormsAlwaysAgree ==
    ServerSpec => [](((now \div TicksPerSec) + 2) * MsPerSec <= MaxInt => LifetimeFormsAgree)
<1> DEFINE sec  == now \div TicksPerSec
           Fits64 == (sec + 2) * MsPerSec <= MaxInt
<1>1. ASSUME InOrder, Fits64 PROVE LifetimeFormsAgree
  <2> SUFFICES ASSUME NEW k \in Keys, Type(db, now, k) \in {"none", "string"},
                      NEW v \in Words, NEW s \in 1 .. 2
               PROVE  {ExpiryAfter(k, ins) : ins \in
                         {<<Send("SETEX", <<k, s, v>>)>>,
                          <<Send("SET", <<k, v, EX, s>>)>>,
                          <<Send("SET", <<k, v, PX, s * MsPerSec>>)>>,
                          <<Send("SET", <<k, v, EXAT, sec + s>>)>>,
                          <<Send("SET", <<k, v, PXAT, (sec + s) * MsPerSec>>)>>,
                          <<Send("SET", <<k, v>>), Send("EXPIRE", <<k, s>>)>>}}
                      = {sec + s}
    BY DEF LifetimeFormsAgree
  <2> DEFINE P    == MsPerSec
             ms   == UnixMilli(now)
             dl   == (sec + s) * P
             goal == sec + s
  <2>1. now \in Nat /\ Shape(db)
    BY <1>1 DEF InOrder
  <2>2. sec \in Nat /\ P \in Nat \ {0} /\ MaxInt \in Nat
    BY <2>1, ClockAssumption, TicksPerSecType, DivNat
  <2>3. Fits64
    BY <1>1
  <2>4. dl \in Nat /\ dl > ms /\ WithTTL(now, dl - ms) = goal
    BY <2>1, SecondReached
  <2>5. ms \in Nat
    BY <2>1, ClockAssumption, DivNat DEF UnixMilli
  <2>6. WithTTL(now, s * P) = goal
    BY <2>1, SecondsAhead
  <2> HIDE DEF sec, P, ms
  <2>7. /\ s * P \in Nat \ {0} /\ s * P <= MaxInt
        /\ dl <= MaxInt /\ sec + s <= MaxInt /\ sec + s \in Nat
    <3>1. (sec + 2) * P <= MaxInt
      BY <2>3 DEF P
    <3>2. CASE s = 1
      BY <2>2, <3>1, <3>2
    <3>3. CASE s = 2
      BY <2>2, <3>1, <3>3
    <3> QED BY <3>2, <3>3
  <2>8. s * P \in Int64 /\ goal \in Int64 /\ dl \in Int64
    BY <2>2, <2>4, <2>7 DEF Int64
  <2>9. Wrap64(s * P) = s * P
    BY <2>8, WrapFits
  <2>10. ms \in 0 .. MaxInt /\ dl \in 0 .. MaxInt
    BY <2>2, <2>4, <2>5, <2>7
  <2>11. dl - ms \in Int /\ dl - ms > 0 /\ ~(dl - ms < 0)
    BY <2>4, <2>5
  <2>12. EX \in Timed /\ PX \in Timed /\ EXAT \in Timed /\ PXAT \in Timed
    BY DEF Timed
  <2>13. Lifetime(EX, s, ms) = s * P
    <3>1. Lifetime(EX, s, ms) = Wrap64(s * MsPerSec)
      BY OptionsAssumption DEF Lifetime
    <3> QED BY <2>9, <3>1 DEF P
  <2>14. Lifetime(PX, s * P, ms) = s * P
    BY OptionsAssumption DEF Lifetime
  <2>15. Lifetime(EXAT, goal, ms) = dl - ms
    <3>1. EXAT \in {EXAT, PXAT} /\ IsInt(goal)
      BY <2>8 DEF IsInt
    <3>2. dl = (IF EXAT = EXAT THEN goal * MsPerSec ELSE goal)
      BY DEF P
    <3> HIDE DEF dl, goal
    <3>3. Lifetime(EXAT, goal, ms) = IF dl - ms < 0 THEN 1 ELSE dl - ms
      BY <2>10, <3>1, <3>2, AbsoluteLifetime
    <3> QED BY <2>11, <3>3
  <2>16. Lifetime(PXAT, dl, ms) = dl - ms
    <3>1. PXAT \in {EXAT, PXAT} /\ IsInt(dl)
      BY <2>8 DEF IsInt
    <3>2. dl = (IF PXAT = EXAT THEN dl * MsPerSec ELSE dl)
      BY OptionsAssumption
    <3> HIDE DEF dl
    <3>3. Lifetime(PXAT, dl, ms) = IF dl - ms < 0 THEN 1 ELSE dl - ms
      BY <2>10, <3>1, <3>2, AbsoluteLifetime
    <3> QED BY <2>11, <3>3
  <2> HIDE DEF dl, goal
  <2>17. s * P \in Int /\ s * P > 0
    BY <2>7
  <2>21. ExpiryAfter(k, <<Send("SETEX", <<k, s, v>>)>>) = goal
    BY <2>1, <2>6, <2>9, <2>17, SetexExpiry DEF P
  <2>22. ExpiryAfter(k, <<Send("SET", <<k, v, EX, s>>)>>) = goal
    BY <2>1, <2>6, <2>12, <2>13, <2>17, FormExpiry DEF ms
  <2>23. ExpiryAfter(k, <<Send("SET", <<k, v, PX, s * P>>)>>) = goal
    BY <2>1, <2>6, <2>12, <2>14, <2>17, FormExpiry DEF ms
  <2>24. ExpiryAfter(k, <<Send("SET", <<k, v, EXAT, goal>>)>>) = goal
    BY <2>1, <2>4, <2>11, <2>12, <2>15, FormExpiry DEF ms
  <2>25. ExpiryAfter(k, <<Send("SET", <<k, v, PXAT, dl>>)>>) = goal
    BY <2>1, <2>4, <2>11, <2>12, <2>16, FormExpiry DEF ms
  <2>26. ExpiryAfter(k, <<Send("SET", <<k, v>>), Send("EXPIRE", <<k, s>>)>>) = goal
    BY <2>1, <2>6, <2>9, SetThenExpire DEF P
  <2> DEFINE i1 == <<Send("SETEX", <<k, s, v>>)>>
             i2 == <<Send("SET", <<k, v, EX, s>>)>>
             i3 == <<Send("SET", <<k, v, PX, s * P>>)>>
             i4 == <<Send("SET", <<k, v, EXAT, goal>>)>>
             i5 == <<Send("SET", <<k, v, PXAT, dl>>)>>
             i6 == <<Send("SET", <<k, v>>), Send("EXPIRE", <<k, s>>)>>
  <2>27. \A ins \in {i1, i2, i3, i4, i5, i6} : ExpiryAfter(k, ins) = goal
    <3> HIDE DEF i1, i2, i3, i4, i5, i6
    <3> QED BY <2>21, <2>22, <2>23, <2>24, <2>25, <2>26 DEF i1, i2, i3, i4, i5, i6
  <2>28. {ExpiryAfter(k, ins) : ins \in {i1, i2, i3, i4, i5, i6}} = {goal}
    <3> HIDE DEF i1, i2, i3, i4, i5, i6
    <3> QED BY <2>27
  <2> QED BY <2>28 DEF goal, dl, P
<1>2. InOrder => (Fits64 => LifetimeFormsAgree)
  BY <1>1
<1> HIDE DEF Fits64
<1>3. ServerSpec => [](Fits64 => LifetimeFormsAgree)
  BY <1>2, InOrderInvariant, PTL
<1> QED BY <1>3 DEF Fits64

\* Whatever clients send and scripts call, with arguments missing, shifted or
\* of any other form, a type entry that names a collection tells the truth
\* about the value beside it.
THEOREM TagsStaySound == ServerSpec => []TagSound
<1>1. InOrder => TagSound
  BY DEF InOrder, Shape, TagSound
<1> QED BY <1>1, InOrderInvariant, PTL

(***************************************************************************)
(* Types.  Scripts may leave collections empty, which the handlers never   *)
(* do, so that the types are kept apart from what is stored in them.       *)
(***************************************************************************)
\* The commands that store their words.
FillOps == {"LPUSH", "RPUSH", "LPUSHX", "RPUSHX", "SADD"}

\* A command that stores values of the right type, at an instant: what it needs
\* of its fields, whoever has made it.
Sorted(t, c) ==
    /\ c.op \notin {"MSET", "DEL", "FLUSHDB"} => c.key \in Keys
    /\ c.op \in StringOps => c.val \in Seq(Chunks)
    /\ c.op \in {"SET", "EXPIRE"} => c.ttl \in Int
    /\ c.op = "EXPIRE" => t + c.ttl * TicksPerMs >= 0
    /\ c.op \in PairOps => \E n \in Nat : DOMAIN c.pairs = 1 .. n
    /\ c.op = "MSET" => \A i \in DOMAIN c.pairs : c.pairs[i][2] \in Seq(Chunks)
    /\ c.op \in {"HSET", "HSETNX"} => \A i \in DOMAIN c.pairs : c.pairs[i][2] \in Words
    /\ c.op \in FillOps => c.words \in Seq(Words)
    /\ c.op \in {"LPOP", "RPOP"} => c.count \in Seq(Int)
    /\ c.op = "LTRIM" => c.start \in Int /\ c.stop \in Int

\* setValue keeps the types of the entries.
LEMMA SetValueTyped ==
    ASSUME NEW d \in Databases, NEW t \in Nat, NEW k \in Keys, NEW v \in Values,
           NEW typ \in Kinds, NEW ttl \in Int
    PROVE  setValue(d, t, k, v, typ, ttl) \in Databases
<1> DEFINE exp == IF ttl > 0 THEN WithTTL(t, ttl) ELSE 0
<1>1. exp \in Nat
  <2>1. CASE ttl > 0
    <3>1. ttl * TicksPerMs \in Nat
      BY <2>1, TimesNat, ClockAssumption
    <3>2. t + ttl * TicksPerMs >= 0
      BY <3>1
    <3> QED BY <2>1, <3>2, WithTTLType
  <2> QED BY <2>1
<1> HIDE DEF exp
<1>2. [val |-> v, exp |-> exp] \in ValueEntries /\ [val |-> typ, exp |-> exp] \in TypeEntries
  BY <1>1 DEF ValueEntries, TypeEntries
<1>3. d.K \in [Keys -> ValueEntries \cup {None}] /\ d.T \in [Keys -> TypeEntries \cup {None}]
  BY DEF Databases
<1>4. /\ [d.K EXCEPT ![k] = [val |-> v, exp |-> exp]] \in [Keys -> ValueEntries \cup {None}]
      /\ [d.T EXCEPT ![k] = [val |-> typ, exp |-> exp]] \in [Keys -> TypeEntries \cup {None}]
  BY <1>2, <1>3
<1> QED BY <1>4, MakeDatabase DEF setValue, exp

\* Taking entries away keeps the types of the others.
LEMMA DropTyped ==
    ASSUME NEW d \in Databases, NEW A, NEW B
    PROVE  [K |-> [k \in Keys |-> IF k \in A THEN None ELSE d.K[k]],
            T |-> [k \in Keys |-> IF k \in B THEN None ELSE d.T[k]]] \in Databases
<1>1. /\ [k \in Keys |-> IF k \in A THEN None ELSE d.K[k]] \in [Keys -> ValueEntries \cup {None}]
      /\ [k \in Keys |-> IF k \in B THEN None ELSE d.T[k]] \in [Keys -> TypeEntries \cup {None}]
  BY DatabaseFields
<1> QED BY <1>1, MakeDatabase

\* So do replacing a value under its own kind and deleting it when it is empty.
LEMMA WritesTyped ==
    ASSUME NEW d \in Databases, NEW t \in Nat, NEW k \in Keys, NEW v \in Values
    PROVE  /\ Replace(d, t, k, v) \in Databases
           /\ \A ks : Delete(d, ks) \in Databases
           /\ \A e : ReplaceOrDelete(d, t, k, v, e) \in Databases
<1>1. v.kind \in Kinds
  BY DEF Values, Kinds
<1>2. oldTTLMs(d, t, k) \in Int
  BY OldTTLType
<1>3. Replace(d, t, k, v) \in Databases
  BY <1>1, <1>2, SetValueTyped DEF Replace
<1>4. \A ks : Delete(d, ks) \in Databases
  BY DropTyped DEF Delete
<1> QED BY <1>3, <1>4 DEF ReplaceOrDelete

\* The commands on strings.
LEMMA StringsTyped ==
    ASSUME NEW d \in Databases, NEW t \in Nat, NEW c, Sorted(t, c),
           NEW o \in applyCmdInTxn(d, t, c),
           c.op \in {"SET", "GETSET", "APPEND", "INCR", "DECR", "INCRBY", "DECRBY"}
    PROVE  o.db \in Databases
<1>1. c.key \in Keys
  BY DEF Sorted
<1>2. ASSUME c.op \in StringOps
      PROVE  /\ Str(c.val) \in Values /\ c.val \in Seq(Chunks)
             /\ \A ttl \in Int : setValue(d, t, c.key, Str(c.val), "string", ttl) \in Databases
  <2>1. c.val \in Seq(Chunks)
    BY <1>2 DEF Sorted
  <2>2. Str(c.val) \in Values
    BY <2>1, StrValue
  <2>3. "string" \in Kinds
    BY DEF Kinds
  <2> QED BY <1>1, <2>1, <2>2, <2>3, SetValueTyped
<1>3. ASSUME NEW r, r.db \in Databases, o = Typed(d, t, c.key, "string", r) PROVE o.db \in Databases
  BY <1>3, TypedShape
<1>4. CASE c.op = "SET"
  <2>1. o = SET(d, t, c)
    BY <1>4 DEF applyCmdInTxn
  <2> DEFINE set == setKey(c, Exists(d, t, c.key))
             r == Outcome(IF set THEN setValue(d, t, c.key, Str(c.val), "string", c.ttl) ELSE d,
                          IF c.get THEN OldReply(d, t, c.key)
                          ELSE IF set THEN OKReply ELSE NilReply)
  <2>2. o = Typed(d, t, c.key, "string", r)
    BY <2>1 DEF SET
  <2> HIDE DEF set
  <2>3. r.db = d \/ r.db = setValue(d, t, c.key, Str(c.val), "string", c.ttl)
    BY DEF Outcome
  <2>4. setValue(d, t, c.key, Str(c.val), "string", c.ttl) \in Databases
    BY <1>2, <1>4 DEF Sorted, StringOps
  <2> HIDE DEF r
  <2> QED BY <1>3, <2>2, <2>3, <2>4
<1>5. CASE c.op = "GETSET"
  <2>1. o = GETSET(d, t, c)
    BY <1>5 DEF applyCmdInTxn
  <2> DEFINE r == Outcome(setValue(d, t, c.key, Str(c.val), "string", 0), OldReply(d, t, c.key))
  <2>2. o = Typed(d, t, c.key, "string", r)
    BY <2>1 DEF GETSET
  <2>3. r.db \in Databases
    BY <1>2, <1>5 DEF Outcome, StringOps
  <2> HIDE DEF r
  <2> QED BY <1>3, <2>2, <2>3
<1>6. CASE c.op = "APPEND"
  <2>1. o = APPEND(d, t, c)
    BY <1>6 DEF applyCmdInTxn
  <2> DEFINE new == StringOf(d, t, c.key) \o c.val
             r == Outcome(Replace(d, t, c.key, Str(new)), IntReply(Len(new)))
  <2>2. o = Typed(d, t, c.key, "string", r)
    BY <2>1 DEF APPEND
  <2>3. StringOf(d, t, c.key) \in Seq(Chunks) /\ c.val \in Seq(Chunks)
    BY <1>1, <1>2, <1>6, ContentTypes DEF StringOps
  <2>4. new \in Seq(Chunks)
    BY <2>3
  <2> HIDE DEF new
  <2>5. Replace(d, t, c.key, Str(new)) \in Databases
    BY <1>1, <2>4, StrValue, WritesTyped
  <2>6. r.db \in Databases
    BY <2>5 DEF Outcome
  <2> HIDE DEF r
  <2> QED BY <1>3, <2>2, <2>6
<1>7. CASE c.op \in {"INCR", "DECR", "INCRBY", "DECRBY"}
  <2>1. o = INCR(d, t, c)
    BY <1>7 DEF applyCmdInTxn
  <2> DEFINE old == IF Exists(d, t, c.key) THEN StringOf(d, t, c.key) ELSE <<0>>
             new == Wrap64(IF c.op \in {"INCR", "INCRBY"} THEN old[1] + c.by[1]
                                                          ELSE old[1] - c.by[1])
             r == IF IsInteger(old) /\ IsInteger(c.by)
                  THEN Outcome(Replace(d, t, c.key, Str(<<new>>)), IntReply(new))
                  ELSE Fail(d, "NOTINTEGER")
  <2>2. o = Typed(d, t, c.key, "string", r)
    BY <2>1 DEF INCR
  <2>3. ASSUME IsInteger(old) /\ IsInteger(c.by)
        PROVE  Replace(d, t, c.key, Str(<<new>>)) \in Databases
    <3>1. old[1] \in Int /\ c.by[1] \in Int
      BY <2>3, ClockAssumption DEF IsInteger, Int64
    <3>2. new \in Int64
      BY <3>1, Wrap64Type
    <3>3. <<new>> \in Seq(Chunks)
      BY <3>2 DEF Chunks
    <3> HIDE DEF new
    <3> QED BY <1>1, <3>3, StrValue, WritesTyped
  <2> HIDE DEF old, new
  <2>4. r.db \in Databases
    BY <2>3 DEF Outcome, Fail
  <2> HIDE DEF r
  <2> QED BY <1>3, <2>2, <2>4
<1> QED BY <1>4, <1>5, <1>6, <1>7

\* The commands on keys and their lifetimes.
LEMMA KeysTyped ==
    ASSUME NEW d \in Databases, NEW t \in Nat, NEW c, Sorted(t, c),
           NEW o \in applyCmdInTxn(d, t, c),
           c.op \in {"MSET", "DEL", "FLUSHDB", "EXPIRE", "PERSIST"}
    PROVE  o.db \in Databases
<1>0. d.K \in [Keys -> ValueEntries \cup {None}] /\ d.T \in [Keys -> TypeEntries \cup {None}]
      /\ d = [K |-> d.K, T |-> d.T]
  BY DEF Databases
<1>1. CASE c.op = "MSET"
  <2> DEFINE at(k)  == {i \in DOMAIN c.pairs : c.pairs[i][1] = k}
             val(k) == c.pairs[CHOOSE i \in at(k) : \A j \in at(k) : j <= i][2]
             nK == [k \in Keys |-> IF at(k) = {} THEN d.K[k]
                                   ELSE [val |-> Str(val(k)), exp |-> 0]]
             nT == [k \in Keys |-> IF at(k) = {} THEN d.T[k]
                                   ELSE [val |-> "string", exp |-> 0]]
  <2>1. o.db = [K |-> nK, T |-> nT]
    <3>1. o = MSET(d, t, c)
      BY <1>1 DEF applyCmdInTxn
    <3> QED BY <3>1 DEF MSET, Outcome
  <2>2. ASSUME NEW k \in Keys, at(k) # {} PROVE val(k) \in Seq(Chunks)
    <3>1. PICK n \in Nat : DOMAIN c.pairs = 1 .. n
      BY <1>1 DEF Sorted, PairOps
    <3>2. at(k) \in SUBSET (1 .. n)
      BY <3>1
    <3>3. \E i \in at(k) : \A j \in at(k) : j <= i
      BY <2>2, <3>2, GreatestElement
    <3>4. PICK i \in at(k) : val(k) = c.pairs[i][2]
      BY <3>3
    <3> QED BY <1>1, <3>4 DEF Sorted
  <2> HIDE DEF val
  <2>3. ASSUME NEW k \in Keys, at(k) # {}
        PROVE  /\ [val |-> Str(val(k)), exp |-> 0] \in ValueEntries
               /\ [val |-> "string", exp |-> 0] \in TypeEntries
    BY <2>2, <2>3, StrValue DEF ValueEntries, TypeEntries, Kinds
  <2> HIDE DEF at
  <2>4. nK \in [Keys -> ValueEntries \cup {None}] /\ nT \in [Keys -> TypeEntries \cup {None}]
    BY <2>3, DatabaseFields
  <2> HIDE DEF nK, nT
  <2> QED BY <2>1, <2>4, MakeDatabase
<1>2. CASE c.op = "DEL"
  <2> DEFINE gone == {k \in Keys : (\E i \in DOMAIN c.keys : c.keys[i] = k) /\ Exists(d, t, k)}
  <2>1. \/ o.db = [d EXCEPT !.K = [@ EXCEPT ![c.key] = None]]
        \/ o.db = Delete(d, gone)
    BY <1>2 DEF applyCmdInTxn, DEL, Outcome
  <2>2. [d.K EXCEPT ![c.key] = None] \in [Keys -> ValueEntries \cup {None}]
    BY <1>0
  <2>3. [d EXCEPT !.K = [@ EXCEPT ![c.key] = None]] = [K |-> [d.K EXCEPT ![c.key] = None], T |-> d.T]
    BY <1>0
  <2>4. [d EXCEPT !.K = [@ EXCEPT ![c.key] = None]] \in Databases
    BY <1>0, <2>2, <2>3, MakeDatabase
  <2>5. Delete(d, gone) \in Databases
    BY DropTyped DEF Delete
  <2> QED BY <2>1, <2>4, <2>5
<1>3. CASE c.op = "FLUSHDB"
  <2> DEFINE A == {k \in Keys : Live(d.K[k], t)}
             B == {k \in Keys : Live(d.T[k], t)}
  <2>1. o.db = [K |-> [k \in Keys |-> IF k \in A THEN None ELSE d.K[k]],
                T |-> [k \in Keys |-> IF k \in B THEN None ELSE d.T[k]]]
    BY <1>3 DEF applyCmdInTxn, FLUSHDB, Outcome
  <2> HIDE DEF A, B
  <2> QED BY <2>1, DropTyped
<1>4. CASE c.op = "EXPIRE"
  <2> DEFINE e == [val |-> d.K[c.key].val, exp |-> WithTTL(t, c.ttl)]
  <2>1. c.key \in Keys /\ c.ttl \in Int /\ t + c.ttl * TicksPerMs >= 0
    BY <1>4 DEF Sorted
  <2>2. o.db = d \/ (Exists(d, t, c.key) /\ o.db = [d EXCEPT !.K = [@ EXCEPT ![c.key] = e]])
    <3>1. o = EXPIRE(d, t, c)
      BY <1>4 DEF applyCmdInTxn
    <3>2. CASE Exists(d, t, c.key)
      BY <3>1, <3>2 DEF EXPIRE, Outcome
    <3>3. CASE ~Exists(d, t, c.key)
      BY <3>1, <3>3 DEF EXPIRE, Outcome
    <3> QED BY <3>2, <3>3
  <2>3. ASSUME Exists(d, t, c.key) PROVE [d EXCEPT !.K = [@ EXCEPT ![c.key] = e]] \in Databases
    <3>1. d.K[c.key] # None
      BY <2>3 DEF Exists, Live
    <3>2. e \in ValueEntries
      BY <2>1, <3>1, StoredValue, WithTTLType DEF ValueEntries
    <3> HIDE DEF e
    <3>3. [d.K EXCEPT ![c.key] = e] \in [Keys -> ValueEntries \cup {None}]
      BY <1>0, <3>2
    <3>4. [d EXCEPT !.K = [@ EXCEPT ![c.key] = e]] = [K |-> [d.K EXCEPT ![c.key] = e], T |-> d.T]
      BY <1>0
    <3> QED BY <1>0, <3>3, <3>4, MakeDatabase
  <2> QED BY <2>2, <2>3
<1>5. CASE c.op = "PERSIST"
  <2> DEFINE typ == getExistingType(d, t, c.key)
  <2>1. c.key \in Keys
    BY <1>5 DEF Sorted
  <2>2. \/ o.db = d
        \/ Exists(d, t, c.key) /\ o.db = setValue(d, t, c.key, d.K[c.key].val, typ, 0)
    BY <1>5 DEF applyCmdInTxn, PERSIST, Outcome
  <2>3. typ \in Kinds
    BY <2>1, DatabaseFields DEF getExistingType, Live, TypeEntries, Kinds
  <2>4. Exists(d, t, c.key) => d.K[c.key].val \in Values
    BY <2>1, StoredValue DEF Exists, Live
  <2> HIDE DEF typ
  <2> QED BY <2>1, <2>2, <2>3, <2>4, SetValueTyped
<1> QED BY <1>1, <1>2, <1>3, <1>4, <1>5

\* The commands on hashes.
LEMMA HashesTyped ==
    ASSUME NEW d \in Databases, NEW t \in Nat, NEW c, Sorted(t, c),
           NEW o \in applyCmdInTxn(d, t, c), c.op \in {"HSET", "HSETNX", "HDEL"}
    PROVE  o.db \in Databases
<1> DEFINE old == HashOf(d, t, c.key)
<1>1. c.key \in Keys
  BY DEF Sorted
<1>2. DOMAIN old \in SUBSET Words /\ old \in [DOMAIN old -> Words]
  BY <1>1, ContentTypes, HashDomain
<1>3. ASSUME NEW r, r.db \in Databases, o = Typed(d, t, c.key, "hash", r) PROVE o.db \in Databases
  BY <1>3, TypedShape
<1>4. CASE c.op \in {"HSET", "HSETNX"}
  <2> DEFINE at(f)  == {i \in DOMAIN c.pairs : c.pairs[i][1] = f}
             fields == FieldsOf(c)
             nx     == c.op = "HSETNX"
             val(f) == c.pairs[CHOOSE i \in at(f) :
                                 \A j \in at(f) : IF nx THEN i <= j ELSE j <= i][2]
             F      == DOMAIN old \cup fields
             new    == [f \in F |-> IF f \notin fields \/ (nx /\ f \in DOMAIN old)
                                    THEN old[f] ELSE val(f)]
             r      == Outcome(Replace(d, t, c.key, Hash(new)),
                               IntReply(Cardinality(fields \ DOMAIN old)))
  <2>1. o = HSET(d, t, c)
    BY <1>4 DEF applyCmdInTxn
  <2>2. HashAfter(d, t, c) = new
    BY DEF HashAfter
  <2>3. o = Typed(d, t, c.key, "hash", r)
    BY <2>1, <2>2, HSETOutcome
  <2>4. fields \in SUBSET Words
    BY DEF FieldsOf
  <2>5. ASSUME NEW f \in fields PROVE val(f) \in Words
    <3>1. PICK n \in Nat : DOMAIN c.pairs = 1 .. n
      BY <1>4 DEF Sorted, PairOps
    <3>2. at(f) \in SUBSET (1 .. n) /\ at(f) \in SUBSET Nat /\ at(f) # {}
      BY <3>1 DEF FieldsOf
    <3>3. \A i \in at(f) : c.pairs[i][2] \in Words
      BY <1>4 DEF Sorted
    <3> HIDE DEF at
    <3>4. \E i \in at(f) : \A j \in at(f) : IF nx THEN i <= j ELSE j <= i
      BY <3>2, LeastElement, GreatestElement
    <3>5. PICK i \in at(f) : val(f) = c.pairs[i][2]
      BY <3>4
    <3> QED BY <3>3, <3>5
  <2> HIDE DEF old, val, at, fields
  <2>6. F \in SUBSET Words /\ new \in [F -> Words]
    BY <1>2, <2>4, <2>5
  <2> HIDE DEF F, new
  <2>7. Replace(d, t, c.key, Hash(new)) \in Databases
    BY <1>1, <2>6, HashValue, WritesTyped
  <2>8. r.db \in Databases
    BY <2>7 DEF Outcome
  <2> HIDE DEF r
  <2> QED BY <1>3, <2>3, <2>8
<1>5. CASE c.op = "HDEL"
  <2> DEFINE gone == {f \in DOMAIN old : \E i \in DOMAIN c.words : c.words[i] = f}
             F    == DOMAIN old \ gone
             new  == [f \in F |-> old[f]]
             w    == ReplaceOrDelete(d, t, c.key, Hash(new), DOMAIN new = {})
             r    == IF Exists(d, t, c.key) THEN Outcome(w, IntReply(Cardinality(gone)))
                     ELSE Outcome(d, IntReply(0))
  <2>1. o = HDEL(d, t, c)
    BY <1>5 DEF applyCmdInTxn
  <2>2. o = Typed(d, t, c.key, "hash", r)
    BY <2>1 DEF HDEL
  <2> HIDE DEF old, gone
  <2>3. F \in SUBSET Words /\ new \in [F -> Words]
    BY <1>2
  <2> HIDE DEF F, new
  <2>4. w \in Databases
    BY <1>1, <2>3, HashValue, WritesTyped
  <2> HIDE DEF w
  <2>5. r.db \in Databases
    BY <2>4 DEF Outcome
  <2> HIDE DEF r
  <2> QED BY <1>3, <2>2, <2>5
<1> QED BY <1>4, <1>5

\* The commands on lists.
LEMMA ListsTyped ==
    ASSUME NEW d \in Databases, NEW t \in Nat, NEW c, Sorted(t, c),
           NEW o \in applyCmdInTxn(d, t, c),
           c.op \in {"LPUSH", "RPUSH", "LPUSHX", "RPUSHX", "LPOP", "RPOP", "LTRIM", "LREM"}
    PROVE  o.db \in Databases
<1> DEFINE old == ListOf(d, t, c.key)
<1>1. c.key \in Keys
  BY DEF Sorted
<1>2. old \in Seq(Words)
  BY <1>1, ContentTypes
<1>3. ASSUME NEW r, r.db \in Databases, o = Typed(d, t, c.key, "list", r) PROVE o.db \in Databases
  BY <1>3, TypedShape
<1>4. ASSUME NEW new \in Seq(Words)
      PROVE  /\ Replace(d, t, c.key, List(new)) \in Databases
             /\ \A e : ReplaceOrDelete(d, t, c.key, List(new), e) \in Databases
  BY <1>1, ListValue, WritesTyped
<1>5. CASE c.op \in {"LPUSH", "RPUSH", "LPUSHX", "RPUSHX"}
  <2> DEFINE new == IF c.op \in {"LPUSH", "LPUSHX"} THEN Reversed(c.words) \o old
                                                    ELSE old \o c.words
             r   == IF c.op \in {"LPUSHX", "RPUSHX"} /\ ~Exists(d, t, c.key)
                    THEN Outcome(d, IntReply(0))
                    ELSE Outcome(Replace(d, t, c.key, List(new)), IntReply(Len(new)))
  <2>1. o = PUSH(d, t, c)
    BY <1>5 DEF applyCmdInTxn
  <2>2. o = Typed(d, t, c.key, "list", r)
    BY <2>1 DEF PUSH
  <2>3. c.words \in Seq(Words) /\ Reversed(c.words) \in Seq(Words)
    BY <1>5, ReversedType DEF Sorted, FillOps
  <2>4. new \in Seq(Words)
    BY <1>2, <2>3
  <2> HIDE DEF new
  <2>5. r.db \in Databases
    BY <1>4, <2>4 DEF Outcome
  <2> HIDE DEF r
  <2> QED BY <1>3, <2>2, <2>5
<1>6. CASE c.op \in {"LPOP", "RPOP"}
  <2> DEFINE n    == IF c.count = << >> THEN 1
                     ELSE IF c.count[1] > Len(old) THEN Len(old) ELSE c.count[1]
             left == c.op = "LPOP"
             new  == IF left THEN SubSeq(old, n + 1, Len(old)) ELSE SubSeq(old, 1, Len(old) - n)
             out  == IF left THEN SubSeq(old, 1, n) ELSE SubSeq(Reversed(old), 1, n)
             w    == ReplaceOrDelete(d, t, c.key, List(new), new = << >>)
             bad  == c.count # << >> /\ ~(IsInteger(c.count) /\ c.count[1] >= 0)
             r    == IF old = << >> THEN Outcome(d, NilReply)
                     ELSE IF bad THEN Fail(d, "NOTINTEGER")
                     ELSE Outcome(w, IF c.count = << >> THEN BulkReply(out) ELSE ArrayReply(out))
  <2>1. o = POP(d, t, c)
    BY <1>6 DEF applyCmdInTxn
  <2>2. o = Typed(d, t, c.key, "list", r)
    BY <2>1 DEF POP
  <2> HIDE DEF old
  <2>3. ASSUME old # << >>, ~bad PROVE w \in Databases
    <3>1. Len(old) \in Nat /\ Len(old) >= 1
      BY <1>2, <2>3
    <3>2. c.count # << >> => c.count[1] \in Nat
      BY <2>3, ClockAssumption DEF IsInteger, Int64
    <3>3. n \in Nat
      BY <3>1, <3>2
    <3> HIDE DEF n
    <3>4. new \in Seq(Words)
      BY <1>2, <3>1, <3>3, SubSeqType
    <3> HIDE DEF new
    <3> QED BY <1>4, <3>4
  <2> HIDE DEF w, bad, out
  <2>4. r.db \in Databases
    BY <2>3 DEF Outcome, Fail
  <2> HIDE DEF r
  <2> QED BY <1>3, <2>2, <2>4
<1>7. CASE c.op = "LTRIM"
  <2> DEFINE new == sliceList(old, c.start, c.stop)
             r   == Outcome(ReplaceOrDelete(d, t, c.key, List(new), new = << >>), OKReply)
  <2>1. o = LTRIM(d, t, c)
    BY <1>7 DEF applyCmdInTxn
  <2>2. o = Typed(d, t, c.key, "list", r)
    BY <2>1 DEF LTRIM
  <2> HIDE DEF old
  <2>3. new \in Seq(Words)
    BY <1>2, <1>7, SliceType DEF Sorted
  <2> HIDE DEF new
  <2>4. r.db \in Databases
    BY <1>4, <2>3 DEF Outcome
  <2> HIDE DEF r
  <2> QED BY <1>3, <2>2, <2>4
<1>8. CASE c.op = "LREM"
  <2> DEFINE hits == {i \in DOMAIN old : old[i] = c.val}
             gone == {i \in hits :
                        \/ c.limit = 0
                        \/ c.limit > 0 /\ Cardinality({j \in hits : j < i}) < c.limit
                        \/ c.limit < 0 /\ Cardinality({j \in hits : j > i}) < -c.limit}
             kept == DOMAIN old \ gone
             rank(i) == Cardinality({j \in kept : j <= i})
             new  == [n \in 1 .. Cardinality(kept) |-> old[CHOOSE i \in kept : rank(i) = n]]
             r    == Outcome(ReplaceOrDelete(d, t, c.key, List(new), kept = {}),
                             IntReply(Cardinality(gone)))
  <2>1. o = LREM(d, t, c)
    BY <1>8 DEF applyCmdInTxn
  <2>2. o = Typed(d, t, c.key, "list", r)
    BY <2>1 DEF LREM
  <2> HIDE DEF old
  <2>3. kept \in SUBSET (1 .. Len(old))
    BY <1>2, LenProperties
  <2> HIDE DEF kept
  <2>4. new \in Seq(Words)
    BY <1>2, <2>3, KeptList
  <2> HIDE DEF rank, new
  <2>5. r.db \in Databases
    BY <1>4, <2>4 DEF Outcome
  <2> HIDE DEF r
  <2> QED BY <1>3, <2>2, <2>5
<1> QED BY <1>5, <1>6, <1>7, <1>8

\* The commands on sets.
LEMMA SetsTyped ==
    ASSUME NEW d \in Databases, NEW t \in Nat, NEW c, Sorted(t, c),
           NEW o \in applyCmdInTxn(d, t, c), c.op \in {"SADD", "SREM", "SPOP"}
    PROVE  o.db \in Databases
<1> DEFINE old == MembersOf(d, t, c.key)
<1>1. c.key \in Keys
  BY DEF Sorted
<1>2. old \in SUBSET Words
  BY <1>1, ContentTypes
<1>3. ASSUME NEW r, r.db \in Databases, NEW p, p = Typed(d, t, c.key, "set", r)
      PROVE  p.db \in Databases
  BY <1>3, TypedShape
<1>4. ASSUME NEW gone, NEW reply PROVE Removed(d, t, c, gone, reply).db \in Databases
  <2> DEFINE new == old \ gone
             r   == Outcome(ReplaceOrDelete(d, t, c.key, SetOf(new), new = {}), reply)
  <2>1. Removed(d, t, c, gone, reply) = Typed(d, t, c.key, "set", r)
    BY DEF Removed
  <2> HIDE DEF old
  <2>2. new \in SUBSET Words
    BY <1>2
  <2> HIDE DEF new
  <2>3. ReplaceOrDelete(d, t, c.key, SetOf(new), new = {}) \in Databases
    BY <1>1, <2>2, SetValue, WritesTyped
  <2>4. r.db \in Databases
    BY <2>3 DEF Outcome
  <2> HIDE DEF r
  <2> QED BY <1>3, <2>1, <2>4
<1>5. CASE c.op = "SADD"
  <2> DEFINE args == {c.words[i] : i \in DOMAIN c.words}
             r    == Outcome(Replace(d, t, c.key, SetOf(old \cup args)),
                             IntReply(Cardinality(args \ old)))
  <2>1. o = SADD(d, t, c)
    BY <1>5 DEF applyCmdInTxn
  <2>2. o = Typed(d, t, c.key, "set", r)
    BY <2>1 DEF SADD
  <2>3. c.words \in Seq(Words)
    BY <1>5 DEF Sorted, FillOps
  <2>4. args \in SUBSET Words
    BY <2>3
  <2> HIDE DEF old, args
  <2>5. Replace(d, t, c.key, SetOf(old \cup args)) \in Databases
    BY <1>1, <1>2, <2>4, SetValue, WritesTyped
  <2>6. r.db \in Databases
    BY <2>5 DEF Outcome
  <2> HIDE DEF r
  <2> QED BY <1>3, <2>2, <2>6
<1>6. CASE c.op = "SREM"
  <2>1. o = SREM(d, t, c)
    BY <1>6 DEF applyCmdInTxn
  <2> QED BY <1>4, <2>1 DEF SREM, Outcome
<1>7. CASE c.op = "SPOP"
  <2>1. o \in SPOP(d, t, c)
    BY <1>7 DEF applyCmdInTxn
  <2>2. CASE Exists(d, t, c.key)
    <3>1. PICK gone, reply : o = Removed(d, t, c, gone, reply)
      BY <2>1, <2>2 DEF SPOP
    <3> QED BY <1>4, <3>1
  <2>3. CASE ~Exists(d, t, c.key)
    BY <2>1, <2>3 DEF SPOP, Outcome
  <2> QED BY <2>2, <2>3
<1> QED BY <1>5, <1>6, <1>7

\* Every command leaves a typed database when it is sorted.
LEMMA ApplyTyped ==
    ASSUME NEW d \in Databases, NEW t \in Nat, NEW c, Sorted(t, c), c.op \in StoreOps,
           NEW o \in applyCmdInTxn(d, t, c)
    PROVE  o.db \in Databases
<1>1. \/ c.op \in {"SET", "GETSET", "APPEND", "INCR", "DECR", "INCRBY", "DECRBY"}
      \/ c.op \in {"MSET", "DEL", "FLUSHDB", "EXPIRE", "PERSIST"}
      \/ c.op \in {"HSET", "HSETNX", "HDEL"}
      \/ c.op \in {"LPUSH", "RPUSH", "LPUSHX", "RPUSHX", "LPOP", "RPOP", "LTRIM", "LREM"}
      \/ c.op \in {"SADD", "SREM", "SPOP"}
  BY DEF StoreOps, StringOps, PairOps, CountOps, BoundOps, WordOps
<1>2. CASE c.op \in {"SET", "GETSET", "APPEND", "INCR", "DECR", "INCRBY", "DECRBY"}
  BY <1>2, StringsTyped
<1>3. CASE c.op \in {"MSET", "DEL", "FLUSHDB", "EXPIRE", "PERSIST"}
  BY <1>3, KeysTyped
<1>4. CASE c.op \in {"HSET", "HSETNX", "HDEL"}
  BY <1>4, HashesTyped
<1>5. CASE c.op \in {"LPUSH", "RPUSH", "LPUSHX", "RPUSHX", "LPOP", "RPOP", "LTRIM", "LREM"}
  BY <1>5, ListsTyped
<1>6. CASE c.op \in {"SADD", "SREM", "SPOP"}
  BY <1>6, SetsTyped
<1> QED BY <1>1, <1>2, <1>3, <1>4, <1>5, <1>6

\* The commands of the handlers are sorted, EXPIRE as long as it does not end a
\* key before the epoch.
LEMMA ClientSorted ==
    ASSUME NEW t, NEW c \in CommandSpace, c.op = "EXPIRE" => t + c.ttl * TicksPerMs >= 0
    PROVE  Sorted(t, c)
<1> USE DEF Sorted, StringOps, PairOps, FillOps
<1>1. CASE c \in SetCommands
  BY <1>1, TextType DEF SetCommands
<1>2. CASE c \in TextCommands
  BY <1>2, TextType DEF TextCommands
<1>3. CASE c \in MSetCommands
  <2>1. c.op = "MSET" /\ c.pairs \in Seq(Keys \X Texts)
    BY <1>3 DEF MSetCommands
  <2>2. DOMAIN c.pairs = 1 .. Len(c.pairs) /\ Len(c.pairs) \in Nat
    BY <2>1, LenProperties
  <2>3. ASSUME NEW i \in DOMAIN c.pairs PROVE c.pairs[i][2] \in Seq(Chunks)
    <3>1. c.pairs[i] \in Keys \X Texts
      BY <2>1, <2>2, ElementOfSeq
    <3> QED BY <3>1, TextType
  <2> QED BY <2>1, <2>2, <2>3
<1>4. CASE c \in HSetCommands
  <2>1. /\ c.op \in {"HSET", "HSETNX"} /\ c.key \in Keys /\ c.pairs \in Seq(Words \X Words)
    BY <1>4 DEF HSetCommands
  <2>2. DOMAIN c.pairs = 1 .. Len(c.pairs) /\ Len(c.pairs) \in Nat
    BY <2>1, LenProperties
  <2>3. ASSUME NEW i \in DOMAIN c.pairs PROVE c.pairs[i][2] \in Words
    <3>1. c.pairs[i] \in Words \X Words
      BY <2>1, <2>2, ElementOfSeq
    <3> QED BY <3>1
  <2> QED BY <2>1, <2>2, <2>3
<1>5. CASE c \in DelCommands
  BY <1>5 DEF DelCommands
<1>6. CASE c \in FlushCommands
  BY <1>6 DEF FlushCommands
<1>7. CASE c \in IncrCommands
  BY <1>7 DEF IncrCommands
<1>8. CASE c \in ExpireCommands
  BY <1>8 DEF ExpireCommands
<1>9. CASE c \in PersistCommands
  BY <1>9 DEF PersistCommands
<1>10. CASE c \in AddCommands
  BY <1>10 DEF AddCommands
<1>11. CASE c \in RemoveCommands
  BY <1>11 DEF RemoveCommands
<1>12. CASE c \in PopCommands
  BY <1>12 DEF PopCommands
<1>13. CASE c \in LTrimCommands
  BY <1>13 DEF LTrimCommands
<1>14. CASE c \in LRemCommands
  BY <1>14 DEF LRemCommands
<1> QED BY <1>1, <1>2, <1>3, <1>4, <1>5, <1>6, <1>7, <1>8, <1>9, <1>10, <1>11, <1>12,
           <1>13, <1>14 DEF CommandSpace

\* What a call needs for its command to be sorted: a key where the command has
\* one, and values of the right type behind it.  Their number is free, as no
\* code checks it.
TypedCall(s) ==
    /\ s.name \in StoreOps \ {"MSET", "DEL", "FLUSHDB"} => s.args # << >> /\ s.args[1] \in Keys
    /\ s.name \in StringOps => \A i \in 2 .. Len(s.args) : i = 2 => s.args[i] \in Words \cup Int64
    /\ s.name = "MSET" => \A i \in 2 .. Len(s.args) : s.args[i] \in Words \cup Int64
    /\ s.name \in {"HSET", "HSETNX"} \cup FillOps =>
          \A i \in 2 .. Len(s.args) : s.args[i] \in Words

\* The same of the command it becomes.
TypedCommand(c) ==
    /\ c.op \notin {"MSET", "DEL", "FLUSHDB"} => c.key \in Keys
    /\ c.args \in Seq(Arguments)
    /\ c.op \in StringOps => \A i \in 1 .. Len(c.args) : i = 1 => c.args[i] \in Words \cup Int64
    /\ c.op = "MSET" => \A i \in 1 .. Len(c.args) : c.args[i] \in Words \cup Int64
    /\ c.op \in {"HSET", "HSETNX"} \cup FillOps => \A i \in 1 .. Len(c.args) : c.args[i] \in Words
    /\ c.op = "SET" => c.ttl \in Int
    /\ c.op = "EXPIRE" => c.ttl = 0

\* The pairs of such a command.
LEMMA PairsTyped ==
    ASSUME NEW c, TypedCommand(c), c.op \in PairOps, Len(c.args) % 2 = 0
    PROVE  LET pairs == [i \in 1 .. (Len(c.args) \div 2) |-> <<c.args[2 * i - 1], c.args[2 * i]>>]
           IN  /\ Len(c.args) \div 2 \in Nat
               /\ \A i \in 1 .. (Len(c.args) \div 2) :
                     /\ c.op = "MSET" => pairs[i][2] \in Words \cup Int64
                     /\ c.op # "MSET" => pairs[i][2] \in Words
<1> DEFINE n     == Len(c.args)
           h     == n \div 2
           pairs == [i \in 1 .. h |-> <<c.args[2 * i - 1], c.args[2 * i]>>]
<1>0. c.args \in Seq(Arguments)
  BY DEF TypedCommand
<1>1. n \in Nat /\ n % 2 = 0
  <2>1. n \in Nat
    BY <1>0
  <2>2. n % 2 = 0
    BY Zenon
  <2> QED BY <2>1, <2>2
<1> HIDE DEF n
<1>2. h \in Nat /\ 2 * h = n
  BY <1>1
<1> HIDE DEF h
<1>3. ASSUME NEW i \in 1 .. h PROVE pairs[i][2] = c.args[2 * i] /\ 2 * i \in 1 .. n
  BY <1>2
<1> HIDE DEF pairs
<1>4. /\ c.op = "MSET" => \A i \in 1 .. n : c.args[i] \in Words \cup Int64
      /\ c.op # "MSET" => \A i \in 1 .. n : c.args[i] \in Words
  BY DEF TypedCommand, PairOps, n
<1>5. ASSUME NEW i \in 1 .. h
      PROVE  /\ c.op = "MSET" => pairs[i][2] \in Words \cup Int64
             /\ c.op # "MSET" => pairs[i][2] \in Words
  BY <1>3, <1>4
<1> QED BY <1>2, <1>5 DEF pairs, h, n

\* Decoded, it is sorted.
LEMMA DecodedSorted ==
    ASSUME NEW c, TypedCommand(c), ~Malformed(c), ~Panics(c), NEW t \in Nat
    PROVE  Sorted(t, Decode(c))
<1> DEFINE e == Decode(c)
<1> SUFFICES Sorted(t, e)
  OBVIOUS
<1>1. c.op \in StoreOps /\ e.op = c.op
  BY DecodedOp DEF Malformed
<1>2. c.args \in Seq(Arguments) /\ Len(c.args) \in Nat
  BY DEF TypedCommand
<1>3. CASE c.op \in StringOps
  <2>1. c.args # << >>
    BY <1>3 DEF Malformed
  <2>2. 1 \in 1 .. Len(c.args)
    BY <1>2, <2>1
  <2>3. c.args[1] \in Words \cup Int64
    BY <1>3, <2>2 DEF TypedCommand
  <2>4. <<c.args[1]>> \in Seq(Chunks)
    BY <2>3 DEF Chunks
  <2>5. e.key = c.key /\ e.val = <<c.args[1]>> /\ (c.op = "SET" => e.ttl = c.ttl)
    BY <1>3 DEF Decode, StringOps, CountOps, WordOps
  <2> HIDE DEF e
  <2> QED BY <1>1, <1>3, <2>4, <2>5 DEF Sorted, FillOps, TypedCommand, StringOps, PairOps
<1>4. CASE c.op \in PairOps
  <2> DEFINE h     == Len(c.args) \div 2
             pairs == [i \in 1 .. h |-> <<c.args[2 * i - 1], c.args[2 * i]>>]
  <2>1. Len(c.args) % 2 = 0
    BY <1>4 DEF Malformed
  <2>2. h \in Nat /\ \A i \in 1 .. h : /\ c.op = "MSET" => pairs[i][2] \in Words \cup Int64
                                       /\ c.op # "MSET" => pairs[i][2] \in Words
    BY <1>4, <2>1, PairsTyped
  <2>3. CASE c.op = "MSET"
    <3>1. e.pairs = [i \in DOMAIN pairs |-> <<pairs[i][1], <<pairs[i][2]>>>>]
      BY <2>3 DEF Decode, CountOps, WordOps
    <3>2. DOMAIN pairs = 1 .. h
      OBVIOUS
    <3> HIDE DEF e, pairs, h
    <3>3. DOMAIN e.pairs = 1 .. h /\ \A i \in 1 .. h : e.pairs[i][2] = <<pairs[i][2]>>
      BY <3>1, <3>2
    <3>4. \A i \in 1 .. h : <<pairs[i][2]>> \in Seq(Chunks)
      BY <2>2, <2>3 DEF Chunks
    <3> QED BY <1>1, <2>2, <2>3, <3>3, <3>4 DEF Sorted, FillOps, StringOps, PairOps
  <2>4. CASE c.op \in {"HSET", "HSETNX"}
    <3>1. e.pairs = pairs /\ e.key = c.key
      BY <2>4 DEF Decode, CountOps, WordOps
    <3>2. DOMAIN pairs = 1 .. h
      OBVIOUS
    <3> HIDE DEF e, pairs, h
    <3>3. c.key \in Keys
      BY <2>4 DEF TypedCommand
    <3> QED BY <1>1, <2>2, <2>4, <3>1, <3>2, <3>3 DEF Sorted, FillOps, StringOps, PairOps
  <2> QED BY <1>4, <2>3, <2>4 DEF PairOps
<1>5. CASE c.op \in WordOps
  <2>1. e.key = c.key /\ e.words = c.args
    BY <1>5 DEF Decode, CountOps, WordOps
  <2> HIDE DEF e
  <2>2. c.op \in FillOps => c.args \in Seq(Words)
    <3>1. c.op \in FillOps => \A i \in 1 .. Len(c.args) : c.args[i] \in Words
      BY DEF TypedCommand
    <3> QED BY <1>2, <3>1
  <2>3. c.key \in Keys
    BY <1>5 DEF TypedCommand, WordOps
  <2> QED BY <1>1, <1>5, <2>1, <2>2, <2>3 DEF Sorted, StringOps, PairOps, WordOps, FillOps
<1>6. CASE c.op \in {"LPOP", "RPOP"}
  <2>1. e.key = c.key /\ e.count = IF c.args = << >> THEN << >>
                                   ELSE <<IF IsInt(c.args[1]) THEN c.args[1] ELSE -1>>
    BY <1>6 DEF Decode, CountOps, WordOps
  <2> HIDE DEF e
  <2>2. IsInt(c.args[1]) => c.args[1] \in Int
    BY ClockAssumption DEF IsInt, Int64
  <2>3. e.count \in Seq(Int)
    BY <2>1, <2>2
  <2> QED BY <1>1, <1>6, <2>1, <2>3 DEF Sorted, FillOps, TypedCommand, StringOps, PairOps
<1>7. CASE c.op = "LTRIM"
  <2>1. e.key = c.key /\ e.start = Atoi(c.args[1]) /\ e.stop = Atoi(c.args[2])
    BY <1>7 DEF Decode, CountOps, WordOps
  <2> HIDE DEF e
  <2> QED BY <1>1, <1>7, <2>1, AtoiIsInt DEF Sorted, FillOps, TypedCommand, StringOps, PairOps
<1>8. CASE c.op = "EXPIRE"
  <2>1. e.key = c.key /\ e.ttl = c.ttl
    BY <1>8 DEF Decode, CountOps, WordOps
  <2> HIDE DEF e
  <2>2. c.ttl = 0 /\ c.ttl * TicksPerMs = 0
    BY <1>8, ClockAssumption DEF TypedCommand
  <2> QED BY <1>1, <1>8, <2>1, <2>2 DEF Sorted, FillOps, TypedCommand, StringOps, PairOps
<1>9. CASE c.op \in {"LREM", "INCR", "DECR", "INCRBY", "DECRBY", "PERSIST", "SPOP"}
  <2>1. e.key = c.key
    BY <1>9 DEF Decode, CountOps, WordOps
  <2> HIDE DEF e
  <2> QED BY <1>1, <1>9, <2>1 DEF Sorted, FillOps, TypedCommand, StringOps, PairOps
<1>10. CASE c.op \in {"DEL", "FLUSHDB"}
  <2> HIDE DEF e
  <2> QED BY <1>1, <1>10 DEF Sorted, FillOps, StringOps, PairOps
<1> QED BY <1>1, <1>3, <1>4, <1>5, <1>6, <1>7, <1>8, <1>9, <1>10
        DEF StoreOps, StringOps, PairOps, CountOps, BoundOps, WordOps

\* The command that a call of SET makes.
LEMMA SetCallTyped ==
    ASSUME NEW s, TypedCall(s), s.args \in Seq(Arguments), LuaAccepts(s), s.name = "SET"
    PROVE  TypedCommand(parseCommandForLua(s))
<1> DEFINE a       == s.args
           timed   == {EX, PX}
           c       == parseCommandForLua(s)
           at(S)   == {i \in OptionsAt(a, timed) : a[i] \in S}
           last(S) == CHOOSE i \in at(S) : \A j \in at(S) : j <= i
           ttl     == IF at(timed) = {} THEN 0
                      ELSE Lifetime(a[last(timed)], a[last(timed) + 1], 0)
           cond    == IF at({NX, XX}) = {} THEN ""
                      ELSE IF a[last({NX, XX})] = NX THEN "NX" ELSE "XX"
           get     == at({GET}) # {}
<1>1. Len(a) >= 2 /\ Len(a) \in Nat /\ LuaOptionsOK(a)
  BY DEF LuaAccepts
<1>2. 2 \in 2 .. Len(a)
  BY <1>1
<1>3. a[1] \in Keys /\ a[2] \in Words \cup Int64
  BY <1>2 DEF TypedCall, StoreOps, StringOps
<1>4. c = SetCommand(a, timed, 0)
  BY DEF parseCommandForLua
<1>5. c = [Cmd("SET", a[1], <<a[2]>>) EXCEPT !.ttl = ttl, !.cond = cond, !.get = get]
  BY <1>4 DEF SetCommand
<1>6. ttl \in Int
  <2>1. CASE at(timed) = {}
    BY <2>1
  <2>2. CASE at(timed) # {}
    <3>1. at(timed) \subseteq 1 .. Len(a)
      BY <1>1 DEF OptionsAt
    <3>2. \E i \in at(timed) : \A j \in at(timed) : j <= i
      BY <1>1, <2>2, <3>1, GreatestElement
    <3>3. last(timed) \in at(timed)
      BY <3>2
    <3> DEFINE i == last(timed)
    <3> HIDE DEF i
    <3>4. i \in OptionsAt(a, timed) /\ a[i] \in timed
      BY <3>3 DEF i
    <3>5. IsInt(a[i + 1]) /\ a[i] \in Timed
      BY <1>1, <3>4 DEF LuaOptionsOK, Timed
    <3>6. Lifetime(a[i], a[i + 1], 0) \in Int
      BY <3>5, LifetimeType
    <3> QED BY <2>2, <3>6 DEF i
  <2> QED BY <2>1, <2>2
<1> HIDE DEF c, ttl, cond, get
<1>7. c.op = "SET" /\ c.key = a[1] /\ c.args = <<a[2]>> /\ c.ttl = ttl
  BY <1>5 DEF Cmd
<1>8. c.args \in Seq(Arguments) /\ \A i \in 1 .. Len(c.args) : c.args[i] \in Words \cup Int64
  BY <1>3, <1>7 DEF Arguments
<1> HIDE DEF a
<1>9. TypedCommand(c)
  BY <1>3, <1>6, <1>7, <1>8 DEF TypedCommand, FillOps
<1> QED BY <1>9 DEF c

\* The command that any other call makes.
LEMMA CallIsTyped ==
    ASSUME NEW s, TypedCall(s), s.args \in Seq(Arguments), LuaAccepts(s),
           s.name \in StoreOps
    PROVE  TypedCommand(parseCommandForLua(s))
<1> DEFINE c == parseCommandForLua(s)
<1> SUFFICES ASSUME s.name # "SET" PROVE TypedCommand(c)
  BY SetCallTyped
<1>1. CASE s.args = << >>
  <2>1. c = Cmd(s.name, None, << >>)
    BY <1>1 DEF parseCommandForLua
  <2> HIDE DEF c
  <2>2. c.op = s.name /\ c.args = << >> /\ c.ttl = 0
    BY <2>1 DEF Cmd
  <2>3. c.op \in {"MSET", "DEL", "FLUSHDB"}
    BY <1>1, <2>2 DEF TypedCall
  <2>4. c.args \in Seq(Arguments) /\ Len(c.args) = 0 /\ 1 .. Len(c.args) = {}
    BY <2>2
  <2> QED BY <2>2, <2>3, <2>4 DEF TypedCommand
<1>2. CASE s.args # << >>
  <2>1. c = Cmd(s.name, s.args[1], Tail(s.args))
    BY <1>2 DEF parseCommandForLua
  <2> HIDE DEF c
  <2>2. c.op = s.name /\ c.key = s.args[1] /\ c.args = Tail(s.args) /\ c.ttl = 0
    BY <2>1 DEF Cmd
  <2>3. /\ c.args \in Seq(Arguments)
        /\ \A i \in 1 .. Len(c.args) : c.args[i] = s.args[i + 1] /\ i + 1 \in 2 .. Len(s.args)
    <3>1. /\ Tail(s.args) \in Seq(Arguments) /\ Len(s.args) \in Nat \ {0}
          /\ Len(Tail(s.args)) = Len(s.args) - 1
          /\ \A i \in 1 .. (Len(s.args) - 1) : Tail(s.args)[i] = s.args[i + 1]
      BY <1>2, TailOfArguments
    <3> QED BY <2>2, <3>1
  <2>4. /\ c.op \in StringOps => \A i \in 1 .. Len(c.args) : i = 1 => c.args[i] \in Words \cup Int64
        /\ c.op = "MSET" => \A i \in 1 .. Len(c.args) : c.args[i] \in Words \cup Int64
        /\ c.op \in {"HSET", "HSETNX"} \cup FillOps =>
              \A i \in 1 .. Len(c.args) : c.args[i] \in Words
    BY <2>2, <2>3 DEF TypedCall
  <2>5. c.op \notin {"MSET", "DEL", "FLUSHDB"} => c.key \in Keys
    BY <2>2 DEF TypedCall
  <2> QED BY <2>2, <2>3, <2>4, <2>5 DEF TypedCommand
<1> QED BY <1>1, <1>2

\* What Run leaves is typed when the decoded command is sorted.
LEMMA RunTyped ==
    ASSUME NEW d \in Databases, NEW t \in Nat, NEW c,
           ~Malformed(c) /\ ~Panics(c) => Sorted(t, Decode(c)),
           NEW o \in Run(d, t, c)
    PROVE  o.db \in Databases
<1>1. CASE Malformed(c)
  BY <1>1 DEF Run, Fail, Outcome
<1>2. CASE ~Malformed(c) /\ Panics(c)
  <2>1. o = RunToPanic(d, t, c)
    BY <1>2 DEF Run
  <2> DEFINE r == Outcome(d, PanicReply)
             s == IF Exists(d, t, c.key) /\ ~IsInteger(StringOf(d, t, c.key))
                  THEN Fail(d, "NOTINTEGER") ELSE r
  <2>2. r.db = d /\ s.db = d
    BY DEF Outcome, Fail
  <2>3. o = Typed(d, t, c.key, "list", r) \/ o = Typed(d, t, c.key, "string", s)
    BY <2>1 DEF RunToPanic
  <2> HIDE DEF r, s
  <2> QED BY <2>2, <2>3, TypedShape
<1>3. CASE ~Malformed(c) /\ ~Panics(c)
  <2> DEFINE e == Decode(c)
  <2>1. o \in applyCmdInTxn(d, t, e)
    BY <1>3 DEF Run
  <2>2. c.op \in StoreOps
    BY <1>3 DEF Malformed
  <2>3. e.op \in StoreOps /\ Sorted(t, e)
    BY <1>3, <2>2, DecodedOp
  <2> HIDE DEF e
  <2> QED BY <2>1, <2>3, ApplyTyped
<1> QED BY <1>1, <1>2, <1>3

\* So does every call of a script.
LEMMA CallKeepsTypes ==
    ASSUME NEW d \in Databases, NEW t \in Nat, NEW s, TypedCall(s), s.args \in Seq(Arguments),
           NEW o \in luaRedisCall(d, t, s)
    PROVE  o.db \in Databases
<1> DEFINE c == parseCommandForLua(s)
<1>1. CASE ~LuaAccepts(s)
  BY <1>1 DEF luaRedisCall, Fail, Outcome
<1>2. CASE LuaAccepts(s) /\ s.name \in LuaReads
  BY <1>2 DEF luaRedisCall, Outcome
<1>3. CASE LuaAccepts(s) /\ s.name \notin LuaReads
  <2>1. o \in Run(d, t, c)
    BY <1>3 DEF luaRedisCall
  <2>2. c.op = s.name
    <3>1. CASE s.name = "SET"
      BY <3>1 DEF parseCommandForLua, SetCommand, Cmd
    <3>2. CASE s.name # "SET"
      BY <3>2 DEF parseCommandForLua, Cmd
    <3> QED BY <3>1, <3>2
  <2>3. ASSUME ~Malformed(c), ~Panics(c) PROVE Sorted(t, Decode(c))
    <3>1. s.name \in StoreOps
      BY <2>2, <2>3 DEF Malformed
    <3>2. TypedCommand(c)
      BY <1>3, <3>1, CallIsTyped
    <3> HIDE DEF c
    <3> QED BY <2>3, <3>2, DecodedSorted
  <2> HIDE DEF c
  <2> QED BY <2>1, <2>3, RunTyped
<1> QED BY <1>1, <1>2, <1>3

\* A script leaves a typed database, whatever it calls and wherever it stops.
LEMMA ScriptKeepsTypes ==
    ASSUME NEW d \in Databases, NEW t \in Nat, NEW body, Len(body) \in Nat,
           \A i \in 1 .. Len(body) : TypedCall(body[i]) /\ body[i].args \in Seq(Arguments),
           NEW o \in runLua(d, t, body)
    PROVE  o.db \in Databases
<1> DEFINE n == Len(body)
<1>1. PICK f : Follows(f, d, t, body, n) /\ Calls(d, t, body) = f[n]
  BY CallsFollow
<1>2. \A i \in 0 .. n :
         f[i] = IF i = 0 THEN {Outcome(d, NilReply)} ELSE CallOn(f[i - 1], t, body[i])
  BY <1>1 DEF Follows
<1> DEFINE S == {i \in 0 .. n : ~ \A p \in f[i] : p.db \in Databases}
<1>3. ASSUME S # {} PROVE FALSE
  <2>1. S \subseteq Nat
    OBVIOUS
  <2>2. PICK m \in S : \A j \in S : m <= j
    BY <1>3, <2>1, LeastElement
  <2>3. m \in 0 .. n /\ ~ \A p \in f[m] : p.db \in Databases
    OBVIOUS
  <2>4. m # 0
    BY <1>2, <2>3 DEF Outcome
  <2>5. m - 1 \in 0 .. n /\ ~(m <= m - 1) /\ m \in 1 .. n
    BY <2>3, <2>4
  <2>6. \A p \in f[m - 1] : p.db \in Databases
    BY <2>2, <2>5
  <2>7. f[m] = CallOn(f[m - 1], t, body[m])
    BY <1>2, <2>3, <2>4
  <2>8. TypedCall(body[m]) /\ body[m].args \in Seq(Arguments)
    BY <2>5
  <2> HIDE DEF S
  <2>9. ASSUME NEW q \in f[m] PROVE q.db \in Databases
    <3>1. PICK p \in f[m - 1] :
             \/ q = p
             \/ \E r \in luaRedisCall(p.db, t, body[m]) :
                  q = IF Raises(body[m], r.reply) THEN Outcome(r.db, [type |-> "stopped"]) ELSE r
      BY <2>7 DEF CallOn
    <3>2. p.db \in Databases
      BY <2>6
    <3>3. ASSUME NEW r \in luaRedisCall(p.db, t, body[m]),
                 q = IF Raises(body[m], r.reply) THEN Outcome(r.db, [type |-> "stopped"]) ELSE r
          PROVE  q.db \in Databases
      <4>1. r.db \in Databases
        BY <2>8, <3>2, CallKeepsTypes
      <4>2. q.db = r.db
        BY <3>3 DEF Outcome
      <4> QED BY <4>1, <4>2
    <3> QED BY <3>1, <3>2, <3>3
  <2> QED BY <2>3, <2>9
<1>4. \A p \in f[n] : p.db \in Databases
  <2>1. n \in 0 .. n
    OBVIOUS
  <2> HIDE DEF n
  <2> QED BY <1>3, <2>1
<1>5. PICK p \in Calls(d, t, body) :
         o = IF p.reply.type = "stopped" THEN Fail(d, "SCRIPT")
             ELSE Outcome(p.db, LuaReply(p.reply))
  BY DEF runLua
<1>6. o.db = d \/ o.db = p.db
  BY <1>5 DEF Fail, Outcome
<1> QED BY <1>1, <1>4, <1>5, <1>6

\* What a script does when it calls the commands with arguments of their types.
TypedScripts == \A body \in Bodies \cup Stored : \A i \in 1 .. Len(body) : TypedCall(body[i])

\* No EXPIRE of a client asks for a time before the epoch.
NoEarlyExpiry == \A in \in Inputs : Accepts(in) /\ in.name = "EXPIRE" =>
    Start + Wrap64(in.args[2] * MsPerSec) * TicksPerMs >= 0

\* The inductive invariant: what InOrder says, the types, and the instant of each
\* arrival.
TypesInOrder == /\ InOrder /\ db \in Databases /\ scripts \subseteq Stored
                /\ \A c \in Conns : flight[c] # Idle =>
                      /\ flight[c].at \in Start .. now
                      /\ flight[c].cmd.op \in StoreOps \cup ScriptOps
                      /\ flight[c].cmd.op = "SCRIPT_LOAD" => flight[c].cmd.body \in Stored

\* EXPIRE is the only command that its handler sends under this name.
LEMMA OnlyExpire ==
    ASSUME NEW in, NEW ms, Handle(in, ms).op = "EXPIRE"
    PROVE  in.name = "EXPIRE"
<1> DEFINE h == Handle(in, ms)
<1>1. ASSUME in.name = "SET" PROVE h.op = "SET"
  <2>1. h = SetCommand(in.args, Timed, ms)
    BY <1>1 DEF Handle
  <2> HIDE DEF h
  <2> QED BY <2>1 DEF SetCommand, Cmd
<1>2. ASSUME in.name = "SETEX" PROVE h.op = "SET"
  BY <1>2 DEF Handle, Cmd
<1>3. ASSUME in.name \in {"DEL", "UNLINK"} PROVE h.op = "DEL"
  BY <1>3 DEF Handle, Cmd
<1>4. ASSUME in.name \in {"MSET", "FLUSHDB"} PROVE h.op = in.name
  BY <1>4 DEF Handle, Cmd
<1>5. ASSUME in.name \notin {"SET", "SETEX", "EXPIRE", "DEL", "UNLINK", "MSET", "FLUSHDB"}
      PROVE  h.op = in.name
  <2>1. h = Cmd(in.name, in.args[1], Tail(in.args))
    BY <1>5 DEF Handle
  <2> HIDE DEF h
  <2> QED BY <2>1 DEF Cmd
<1> QED BY <1>1, <1>2, <1>3, <1>4, <1>5

\* A client's command in flight is sorted when it is applied.
LEMMA RecordedSorted ==
    ASSUME NoEarlyExpiry, NEW t \in Nat, Start <= t, NEW f, Recorded(f, t),
           f.cmd.op \in StoreOps
    PROVE  Sorted(t, Decode(f.cmd))
<1>1. /\ f.in \in Inputs /\ Accepts(f.in) /\ f.at \in Nat
      /\ f.cmd = Handle(f.in, UnixMilli(f.at))
  BY DEF Recorded, StoreOps, ScriptOps, StringOps, PairOps, CountOps, BoundOps, WordOps
<1>2. UnixMilli(f.at) \in Int
  BY <1>1, ClockAssumption DEF UnixMilli
<1>3. Applicable(f.cmd)
  BY <1>1, <1>2, HandlersSendApplicable
<1> DEFINE e == Decode(f.cmd)
<1>4. e \in CommandSpace /\ e.op = f.cmd.op
  BY <1>3, DecodedOp DEF Applicable
<1>5. ASSUME e.op = "EXPIRE" PROVE t + e.ttl * TicksPerMs >= 0
  <2> DEFINE w == Wrap64(f.in.args[2] * MsPerSec)
  <2>1. f.in.name = "EXPIRE"
    <3>1. f.cmd.op = "EXPIRE"
      BY <1>4, <1>5
    <3> QED BY <1>1, <3>1, OnlyExpire
  <2>2. f.cmd = [Cmd("EXPIRE", f.in.args[1], << >>) EXCEPT !.ttl = w]
    BY <1>1, <2>1 DEF Handle
  <2>3. IsInt(f.in.args[2])
    BY <1>1, <2>1 DEF Accepts, FormOK
  <2>4. w \in Int /\ Start + w * TicksPerMs >= 0
    BY <1>1, <2>1, <2>3, ScaledType DEF NoEarlyExpiry
  <2> HIDE DEF w
  <2>5. f.cmd.op = "EXPIRE" /\ f.cmd.ttl = w
    BY <2>2 DEF Cmd
  <2>6. e.ttl = w
    BY <2>5 DEF Decode, CountOps, WordOps
  <2> HIDE DEF e
  <2>7. w * TicksPerMs \in Int /\ Start \in Nat
    BY <2>4, ClockAssumption, RequestsAssumption
  <2>8. \A x \in Int : Start + x >= 0 => t + x >= 0
    BY <2>7
  <2> QED BY <2>4, <2>6, <2>7, <2>8
<1> HIDE DEF e
<1>6. Sorted(t, e)
  BY <1>4, <1>5, ClientSorted
<1> QED BY <1>6 DEF e

\* A new command, or none, for one connection; time does not pass.
LEMMA StillTyped ==
    ASSUME TypesInOrder, InOrder', NEW c \in Conns, NEW x,
           flight' = [flight EXCEPT ![c] = x], now' = now,
           x # Idle => /\ x.at = now /\ x.cmd.op \in StoreOps \cup ScriptOps
                       /\ x.cmd.op = "SCRIPT_LOAD" => x.cmd.body \in Stored,
           db' \in Databases, scripts' \subseteq Stored
    PROVE  TypesInOrder'
<1>1. /\ now \in Nat /\ Start <= now /\ DOMAIN flight = Conns /\ Start \in Nat
  BY RequestsAssumption DEF TypesInOrder, InOrder
<1>2. /\ flight'[c] = x
      /\ \A d \in Conns : d # c => flight'[d] = flight[d]
  BY <1>1, Replaced
<1>3. now \in Start .. now
  BY <1>1
<1>4. ASSUME NEW d \in Conns, flight'[d] # Idle
      PROVE  /\ flight'[d].at \in Start .. now'
             /\ flight'[d].cmd.op \in StoreOps \cup ScriptOps
             /\ flight'[d].cmd.op = "SCRIPT_LOAD" => flight'[d].cmd.body \in Stored
  <2>1. CASE d = c
    BY <1>2, <1>3, <1>4, <2>1
  <2>2. CASE d # c
    BY <1>2, <1>4, <2>2 DEF TypesInOrder
  <2> QED BY <2>1, <2>2
<1> QED BY <1>4 DEF TypesInOrder

\* Every step of the server keeps the types.
LEMMA TypedStep ==
    ASSUME TypedScripts, NoEarlyExpiry, TypesInOrder, [ServerNext]_serverVars
    PROVE  TypesInOrder'
<1>1. /\ now \in Nat /\ Start <= now /\ Start \in Nat /\ DOMAIN flight = Conns
      /\ \A c \in Conns : flight[c] # Idle => Recorded(flight[c], now)
      /\ db \in Databases /\ scripts \subseteq Stored /\ InOrder
  BY RequestsAssumption DEF TypesInOrder, InOrder
<1>2. InOrder'
  BY <1>1, InOrderStep
<1>3. ASSUME NEW c \in Conns, Receive(c) PROVE TypesInOrder'
  <2>1. PICK in \in Inputs : Accepts(in) /\ Submit(c, in, Handle(in, UnixMilli(now)))
    BY <1>3 DEF Receive
  <2> DEFINE cmd == Handle(in, UnixMilli(now))
             x   == [in |-> in, cmd |-> cmd, at |-> now]
  <2>2. /\ flight' = [flight EXCEPT ![c] = x] /\ now' = now /\ db' = db
        /\ scripts' = scripts
    BY <2>1 DEF Submit
  <2>3. UnixMilli(now) \in Int
    BY <1>1, ClockAssumption DEF UnixMilli
  <2>4. cmd.op \in StoreOps
    BY <2>1, <2>3, HandlersSendApplicable DEF Applicable, Malformed
  <2> HIDE DEF cmd
  <2>5. x.at = now /\ x.cmd.op \in StoreOps
    BY <2>4
  <2> HIDE DEF x
  <2>6. x.cmd.op # "SCRIPT_LOAD"
    BY <2>5 DEF StoreOps, StringOps, PairOps, CountOps, BoundOps, WordOps
  <2> QED BY <1>1, <1>2, <2>2, <2>5, <2>6, StillTyped
<1>4. ASSUME NEW c \in Conns, ReceiveScript(c) PROVE TypesInOrder'
  <2>1. PICK op \in ScriptOps : \E body \in IF op = "EVAL" THEN Bodies ELSE Stored :
           Submit(c, Send(op, << >>), [op |-> op, body |-> body])
    BY <1>4 DEF ReceiveScript
  <2>2. PICK body \in IF op = "EVAL" THEN Bodies ELSE Stored :
           Submit(c, Send(op, << >>), [op |-> op, body |-> body])
    BY <2>1
  <2> DEFINE x == [in |-> Send(op, << >>), cmd |-> [op |-> op, body |-> body], at |-> now]
  <2>3. /\ flight' = [flight EXCEPT ![c] = x] /\ now' = now /\ db' = db
        /\ scripts' = scripts
    BY <2>2 DEF Submit
  <2>4. x.at = now /\ x.cmd.op = op /\ x.cmd.body = body
    OBVIOUS
  <2> HIDE DEF x
  <2>5. op = "SCRIPT_LOAD" => body \in Stored
    BY <2>2
  <2> QED BY <1>1, <1>2, <2>3, <2>4, <2>5, StillTyped
<1>5. ASSUME NEW c \in Conns, Answered(c), db' \in Databases, scripts' \subseteq Stored
      PROVE  TypesInOrder'
  <2>1. flight' = [flight EXCEPT ![c] = Idle] /\ now' = now
    BY <1>5 DEF Answered
  <2> QED BY <1>2, <1>5, <2>1, StillTyped
<1>6. ASSUME NEW c \in Conns, Commit(c) PROVE TypesInOrder'
  <2>1. /\ Answered(c) /\ scripts' = scripts /\ flight[c] # Idle /\ flight[c].cmd.op \in StoreOps
        /\ \E o \in Run(db, now, flight[c].cmd) : db' = o.db
    BY <1>6 DEF Commit, Waits
  <2>2. Sorted(now, Decode(flight[c].cmd))
    BY <1>1, <2>1, RecordedSorted
  <2>3. db' \in Databases
    BY <1>1, <2>1, <2>2, RunTyped
  <2> QED BY <1>1, <1>5, <2>1, <2>3
<1>7. ASSUME NEW c \in Conns, Eval(c) PROVE TypesInOrder'
  <2>1. /\ Answered(c) /\ scripts' = scripts /\ flight[c] # Idle
        /\ flight[c].cmd.op \in {"EVAL", "EVALSHA"}
        /\ \/ db' = db
           \/ \E o \in runLua(db, now, flight[c].cmd.body) : db' = o.db
    BY <1>7 DEF Eval, Waits
  <2> DEFINE body == flight[c].cmd.body
  <2>2. body \in Bodies \cup Stored
    BY <1>1, <2>1, ScriptInFlight
  <2> HIDE DEF body
  <2>3. Len(body) \in Nat /\ \A i \in 1 .. Len(body) : body[i].args \in Seq(Arguments)
    <3> DEFINE R == [mode : {"call", "pcall"}, name : STRING, args : Seq(Arguments)]
    <3>1. body \in Seq(R)
      BY <2>2, BodiesAssumption
    <3>2. \A s \in R : s.args \in Seq(Arguments)
      OBVIOUS
    <3> HIDE DEF R
    <3>3. Len(body) \in Nat /\ \A i \in 1 .. Len(body) : body[i] \in R
      BY <3>1
    <3> QED BY <3>2, <3>3
  <2>4. \A i \in 1 .. Len(body) : TypedCall(body[i]) /\ body[i].args \in Seq(Arguments)
    BY <2>2, <2>3 DEF TypedScripts
  <2>5. ASSUME NEW o \in runLua(db, now, body) PROVE o.db \in Databases
    BY <1>1, <2>3, <2>4, ScriptKeepsTypes
  <2>6. db' \in Databases
    BY <1>1, <2>1, <2>5 DEF body
  <2> QED BY <1>1, <1>5, <2>1, <2>6
<1>8. ASSUME NEW c \in Conns, ScriptLoad(c) \/ ScriptExists(c) \/ ScriptFlush(c)
      PROVE  TypesInOrder'
  <2>1. Answered(c) /\ db' = db
    BY <1>8 DEF ScriptLoad, ScriptExists, ScriptFlush
  <2>2. scripts' \subseteq Stored
    BY <1>1, <1>8 DEF ScriptLoad, ScriptExists, ScriptFlush, Waits, TypesInOrder
  <2> QED BY <1>1, <1>5, <2>1, <2>2
<1>9. ASSUME now' \in Nat, now <= now', flight' = flight, db' = db, scripts' = scripts
      PROVE  TypesInOrder'
  <2>1. ASSUME NEW c \in Conns, flight[c] # Idle PROVE flight[c].at \in Start .. now'
    <3>1. flight[c].at \in Start .. now
      BY <2>1 DEF TypesInOrder
    <3> QED BY <1>1, <1>9, <3>1
  <2> QED BY <1>1, <1>2, <1>9, <2>1 DEF TypesInOrder
<1>10. CASE Pass
  <2>1. now' \in Nat /\ now <= now' /\ flight' = flight /\ db' = db /\ scripts' = scripts
    BY <1>1, <1>10 DEF Pass, Tick
  <2> QED BY <1>9, <2>1
<1>11. CASE UNCHANGED serverVars
  BY <1>1, <1>9, <1>11 DEF serverVars
<1> QED BY <1>3, <1>4, <1>6, <1>7, <1>8, <1>10, <1>11 DEF ServerNext

\* Through every interleaving of clients and scripts the entries in Badger keep
\* their types, a script is stored only if it was sent to be, and no command
\* waits from before the start or under an operation nobody knows: although
\* nothing checks the number of arguments of a scripted command, and a script
\* may end in the middle.  The scripts pass keys and values where the commands
\* take them, and no EXPIRE asks for a time before the epoch.
THEOREM ServerTypesHold ==
    ASSUME TypedScripts, NoEarlyExpiry
    PROVE  ServerSpec => []ServerTypeOK
<1>1. ServerInit => TypesInOrder
  <2> SUFFICES ASSUME ServerInit PROVE TypesInOrder
    OBVIOUS
  <2>1. db = EmptyDB /\ now = Start /\ flight = [c \in Conns |-> Idle] /\ scripts = {}
    BY DEF ServerInit, Init
  <2>2. db \in Databases
    BY <2>1 DEF EmptyDB, Databases
  <2>3. Shape(db)
    BY <2>1 DEF Shape, SoundTags, EmptyDB
  <2>4. InOrder
    BY <2>1, <2>3, RequestsAssumption DEF InOrder
  <2> QED BY <2>1, <2>2, <2>4 DEF TypesInOrder
<1>2. TypesInOrder /\ [ServerNext]_serverVars => TypesInOrder'
  BY TypedStep
<1>3. TypesInOrder => ServerTypeOK
  BY DEF TypesInOrder, InOrder, ServerTypeOK
<1> QED BY <1>1, <1>2, <1>3, PTL DEF ServerSpec
=============================================================================
