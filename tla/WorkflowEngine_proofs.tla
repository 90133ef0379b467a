-------------------------- MODULE WorkflowEngine_proofs --------------------------
(***************************************************************************)
(* Proofs about WorkflowEngine, for any graph of nodes in dependency       *)
(* order, any numbers of runs, retries and edits, with crashes anywhere.   *)
(*                                                                         *)
(* ReusedIsCurrent is not inductive. A resume takes over from one file     *)
(* what can be taken over from it, so WInv orders the files: what could be *)
(* taken over from an older one still can be from a younger one that is    *)
(* usable, and all of it is up to date (FilesOK); the running run has      *)
(* taken over everything the usable files offer and adds only what it      *)
(* executed (RunningOK, Progress); what is undone and left to undo divides *)
(* the completed nodes at a place in the order (Compensating).             *)
(*                                                                         *)
(* The set a resume takes over is computed by a fold over the saved        *)
(* outputs; it is unrolled with DataLemmas and shown to be the largest set *)
(* of completed, unchanged nodes closed under dependencies.                *)
(***************************************************************************)
EXTENDS WorkflowEngine, DataLemmas

-----------------------------------------------------------------------------
(* The inductive invariant *)

\* A list of outputs in which no node comes before one it depends on.
Ordered(outputs) ==
  \A i, j \in DOMAIN outputs : outputs[i] \in Deps[outputs[j]] => i < j

WellFormed(run) ==
  /\ run \in Run
  /\ IsInjective(run.outputs) /\ Ordered(run.outputs)
  /\ \A n \in Nodes : run.state[n] = "none" <=> n \notin Range(run.outputs)
  /\ \A n \in run.reused : run.state[n] = "completed" /\ Deps[n] \subseteq run.reused

\* The outcome on record is that of the node's last execution, in its present
\* version, and none of its dependencies was executed since.
UpToDate(n) == ran[n] = "completed" /\ ranAt[n] = version[n] /\ n \notin stale

\* Nodes a resume could take over from the file together.
Closed(file, S) ==
  \A n \in S : /\ file.run.state[n] = "completed" /\ file.version[n] = version[n]
               /\ Deps[n] \subseteq S

\* The files and how they follow each other.
FilesOK ==
  /\ runs \in Seq(RunFile) /\ Len(runs) <= MaxRuns
  /\ \A i \in DOMAIN runs : /\ WellFormed(runs[i].run)
                            /\ \A n \in Nodes : runs[i].version[n] <= version[n]
  /\ \A i, j \in Usable : \A S \in SUBSET Nodes :
       i <= j /\ Closed(runs[i], S) => Closed(runs[j], S)
  /\ \A i \in Usable : \A S \in SUBSET Nodes :
       Closed(runs[i], S) => \A n \in S : UpToDate(n)

\* Where the running run stands in the order.
Progress ==
  /\ at \in 1 .. Len(Order) + 1
  /\ pc \in {"execute", "record"} => /\ at <= Len(Order) /\ Order[at] \notin cur.reused
                                     /\ retried <= Retries[Order[at]]
  /\ pc \in {"node", "execute", "record"} =>
       \A n \in Range(cur.outputs) : n \in cur.reused \/ \E i \in 1 .. at - 1 : Order[i] = n
  /\ pc = "record" => /\ result \in {"completed", "failed"}
                      /\ result = ran[Order[at]] /\ ranAt[Order[at]] = version[Order[at]]
                      /\ Order[at] \notin stale

\* The file of the running run.
Unsaved == DOMAIN runs \ (IF saved THEN {Len(runs)} ELSE {})
RunningOK ==
  pc # "idle" =>
    /\ ~ended
    /\ ~saved => Len(runs) < MaxRuns
    /\ \A n \in Nodes : cur.state[n] = "completed" => UpToDate(n)
    /\ \A i \in Usable \cap Unsaved : \A S \in SUBSET Nodes :
         Closed(runs[i], S) => S \subseteq cur.reused
    /\ saved => /\ runs # << >> /\ Last(runs).version = version
                /\ \A n \in Nodes : /\ Last(runs).run.state[n] = "completed"
                                         => cur.state[n] = "completed"
                                    /\ n \in cur.reused
                                         => Last(runs).run.state[n] = "completed"

Compensating ==
  /\ todo \in Seq(Nodes)
  /\ pc # "compensate" => todo = << >>
  /\ pc = "compensate" =>
       /\ saved /\ Last(runs).run = cur
       /\ result \in {"completed", "failed"}
       /\ result = "completed" =>
            \A n \in Compensable :
              cur.state[n] = "completed" => n \in undone \cup Range(todo)

Simple ==
  /\ version \in [Nodes -> Nat]
  /\ pc \in {"idle", "node", "execute", "record", "compensate"}
  /\ saved \in BOOLEAN /\ retried \in Nat
  /\ result \in {"none", "completed", "failed"}
  /\ ended \in BOOLEAN
  /\ ran \in [Nodes -> {"none", "completed", "failed"}]
  /\ ranAt \in [Nodes -> Nat]
  /\ stale \subseteq Nodes /\ undone \subseteq Compensable
  /\ pc = "idle" => cur = NewRun

WInv ==
  /\ Simple /\ WellFormed(cur) /\ FilesOK /\ Progress /\ RunningOK /\ Compensating
  /\ CompensatesDependentsFirst /\ FailedIsCompensated /\ ReuseIsMaximal

-----------------------------------------------------------------------------
(* What the folds over the outputs of a run compute *)

Takes(file, n, taken) ==
  /\ file.run.state[n] = "completed" /\ file.version[n] = version[n]
  /\ Deps[n] \subseteq Range(taken)

\* The fold of Reusable, one output at a time.
LEMMA ReusableUnrolled ==
  ASSUME NEW file \in RunFile
  PROVE  LET outs == file.run.outputs IN
         \E h \in [0 .. Len(outs) -> Seq(Nodes)] :
           /\ h[0] = << >> /\ Reusable(file) = h[Len(outs)]
           /\ \A k \in 1 .. Len(outs) :
                h[k] = IF Takes(file, outs[k], h[k - 1])
                         THEN Append(h[k - 1], outs[k]) ELSE h[k - 1]
<1> DEFINE outs == file.run.outputs
           n == Len(outs)
           B == Seq(Nodes)
           Op(k, r) == IF Takes(file, outs[k], r) THEN Append(r, outs[k]) ELSE r
           step == [k \in 1 .. n |-> [r \in B |-> Op(k, r)]]
           Table(g) == g = [t \in SUBSET (1 .. n) |->
                              IF t = {} THEN << >> ELSE Op(Max(t), g[t \ {Max(t)}])]
           iter == CHOOSE g : Table(g)
<1>1. outs \in Seq(Nodes) /\ n \in Nat /\ DOMAIN outs = 1 .. n
  BY DEF RunFile, Run
<1>2. Reusable(file) = iter[1 .. n]
  BY <1>1 DEF Reusable, Takes, FoldLeft, MapThenFoldSet
<1>3. ASSUME NEW k \in 1 .. n, NEW r \in B PROVE Op(k, r) \in B
  BY <1>1, <1>3
<1>4. \E g : Table(g)
  <2>1. step \in [1 .. n -> [B -> B]]
    BY <1>3
  <2>2. << >> \in B
    OBVIOUS
  <2>3. PICK g \in [SUBSET (1 .. n) -> B] : \A t \in SUBSET (1 .. n) : Folded(g, t, << >>, step)
    BY <1>1, <2>1, <2>2, FoldTable
  <2>4. ASSUME NEW t \in SUBSET (1 .. n), t # {} PROVE g[t] = Op(Max(t), g[t \ {Max(t)}])
    <3>1. Max(t) \in 1 .. n /\ t \ {Max(t)} \in SUBSET (1 .. n)
      BY <1>1, <2>4, MaxOfBounded
    <3>2. g[t \ {Max(t)}] \in B
      BY <2>3, <3>1
    <3>3. g[t] = step[Max(t)][g[t \ {Max(t)}]]
      BY <2>3, <2>4 DEF Folded
    <3> HIDE DEF Op
    <3>4. QED
      BY <3>1, <3>2, <3>3
  <2>5. ASSUME NEW t \in SUBSET (1 .. n), t = {} PROVE g[t] = << >>
    BY <2>3, <2>5 DEF Folded
  <2> HIDE DEF Op
  <2>6. \A t \in SUBSET (1 .. n) : g[t] = IF t = {} THEN << >> ELSE Op(Max(t), g[t \ {Max(t)}])
    BY <2>4, <2>5
  <2>7. g = [t \in SUBSET (1 .. n) |-> g[t]]
    BY <2>3
  <2>8. Table(g)
    BY <2>6, <2>7, Zenon
  <2>9. QED
    BY <2>8
<1>5. Table(iter)
  BY <1>4
<1> HIDE DEF iter
<1>6. iter[{}] = << >>
  BY <1>5
<1>7. ASSUME NEW t \in SUBSET (1 .. n), t # {}, iter[t \ {Max(t)}] \in B
      PROVE  iter[t] = step[Max(t)][iter[t \ {Max(t)}]]
  <2>1. Max(t) \in 1 .. n
    BY <1>1, <1>7, MaxOfBounded
  <2> HIDE DEF Op
  <2>2. iter[t] = Op(Max(t), iter[t \ {Max(t)}])
    BY <1>5, <1>7
  <2>3. QED
    BY <1>7, <2>1, <2>2
<1>8. PICK h \in [0 .. n -> B] :
        /\ h[0] = << >> /\ h[n] = iter[1 .. n]
        /\ \A k \in 1 .. n : h[k] = step[k][h[k - 1]]
  <2>1. step \in [1 .. n -> [B -> B]] /\ << >> \in B
    BY <1>3
  <2>2. IsFold(iter, n, B, << >>, step)
    BY <1>6, <1>7, Zenon DEF IsFold
  <2>3. n \in Nat
    BY <1>1
  <2> HIDE DEF step, n, B
  <2>4. QED
    BY <2>1, <2>2, <2>3, FoldUnrolls
<1>9. ASSUME NEW k \in 1 .. n PROVE h[k] = Op(k, h[k - 1])
  <2>1. h[k - 1] \in B
    BY <1>1, <1>8
  <2> HIDE DEF Op
  <2>2. QED
    BY <1>8, <2>1
<1>10. QED
  BY <1>2, <1>8, <1>9

LEMMA AppendedNode ==
  ASSUME NEW r \in Seq(Nodes), NEW x \in Nodes
  PROVE  /\ Append(r, x) \in Seq(Nodes)
         /\ DOMAIN r = 1 .. Len(r) /\ DOMAIN Append(r, x) = 1 .. Len(r) + 1
         /\ \A i \in 1 .. Len(r) : Append(r, x)[i] = r[i]
         /\ Append(r, x)[Len(r) + 1] = x
         /\ Range(Append(r, x)) = Range(r) \cup {x}
         /\ IsInjective(r) /\ x \notin Range(r) => IsInjective(Append(r, x))
<1>1. /\ Append(r, x) \in Seq(Nodes)
      /\ DOMAIN r = 1 .. Len(r) /\ DOMAIN Append(r, x) = 1 .. Len(r) + 1
      /\ \A i \in 1 .. Len(r) : Append(r, x)[i] = r[i]
      /\ Append(r, x)[Len(r) + 1] = x
  OBVIOUS
<1>2. Range(Append(r, x)) = Range(r) \cup {x}
  <2>1. ASSUME NEW y \in Range(Append(r, x)) PROVE y \in Range(r) \cup {x}
    BY <1>1 DEF Range
  <2>2. ASSUME NEW y \in Range(r) PROVE y \in Range(Append(r, x))
    <3>1. PICK i \in 1 .. Len(r) : y = r[i]
      BY <1>1 DEF Range
    <3>2. i \in 1 .. Len(r) + 1 /\ Append(r, x)[i] = y
      BY <1>1, <3>1
    <3>3. QED
      BY <1>1, <3>2 DEF Range
  <2>3. x \in Range(Append(r, x))
    <3>1. Len(r) + 1 \in 1 .. Len(r) + 1
      OBVIOUS
    <3>2. QED
      BY <1>1, <3>1 DEF Range
  <2>4. QED
    BY <2>1, <2>2, <2>3
<1>3. ASSUME IsInjective(r), x \notin Range(r) PROVE IsInjective(Append(r, x))
  BY <1>1, <1>3 DEF IsInjective, Range
<1>4. QED
  BY <1>1, <1>2, <1>3

\* What is taken over is in order and depends on nothing else.
LEMMA ReusableIsClosed ==
  ASSUME NEW file \in RunFile, WellFormed(file.run)
  PROVE  LET r == Reusable(file) IN
         /\ r \in Seq(Nodes) /\ IsInjective(r) /\ Ordered(r)
         /\ Closed(file, Range(r))
<1> DEFINE outs == file.run.outputs
           n == Len(outs)
<1>1. outs \in Seq(Nodes) /\ n \in Nat /\ DOMAIN outs = 1 .. n /\ IsInjective(outs)
  BY DEF RunFile, Run, WellFormed
<1>2. PICK h \in [0 .. n -> Seq(Nodes)] :
        /\ h[0] = << >> /\ Reusable(file) = h[n]
        /\ \A k \in 1 .. n : h[k] = IF Takes(file, outs[k], h[k - 1])
                                       THEN Append(h[k - 1], outs[k]) ELSE h[k - 1]
  BY ReusableUnrolled
<1> DEFINE Good(k) == /\ Range(h[k]) \subseteq {outs[b] : b \in 1 .. k}
                      /\ IsInjective(h[k]) /\ Ordered(h[k])
                      /\ Closed(file, Range(h[k]))
           T == {k \in 0 .. n : Good(k)}
<1>3. 0 \in T
  <2>1. h[0] = << >> /\ DOMAIN h[0] = {} /\ Range(h[0]) = {}
    BY <1>2 DEF Range
  <2>2. Good(0)
    BY <2>1 DEF Good, IsInjective, Ordered, Closed
  <2>3. QED
    BY <1>1, <2>2
<1>4. ASSUME NEW k \in 0 .. n - 1, k \in T PROVE k + 1 \in T
  <2>1. k + 1 \in 1 .. n /\ (k + 1) - 1 = k /\ k \in 0 .. n /\ k + 1 \in 0 .. n
    BY <1>1
  <2>2. h[k] \in Seq(Nodes) /\ outs[k + 1] \in Nodes
    <3>1. h[k] \in Seq(Nodes)
      BY <2>1
    <3>2. outs[k + 1] \in Nodes
      BY <1>1, <2>1
    <3>3. QED
      BY <3>1, <3>2
  <2>3. h[k + 1] = IF Takes(file, outs[k + 1], h[k])
                     THEN Append(h[k], outs[k + 1]) ELSE h[k]
    BY <1>2, <2>1
  <2>4. Good(k)
    BY <1>4
  <2>5. {outs[b] : b \in 1 .. k} \subseteq {outs[b] : b \in 1 .. k + 1}
    BY <2>1
  <2>6. CASE ~ Takes(file, outs[k + 1], h[k])
    <3>1. h[k + 1] = h[k]
      BY <2>3, <2>6
    <3>2. Good(k + 1)
      BY <2>4, <2>5, <3>1
    <3>3. QED
      BY <2>1, <3>2
  <2>7. CASE Takes(file, outs[k + 1], h[k])
    <3> DEFINE x == outs[k + 1]
               r == h[k]
    <3>1. h[k + 1] = Append(r, x)
      BY <2>3, <2>7
    <3>2. x \notin Range(r)
      <4>1. SUFFICES ASSUME NEW b \in 1 .. k, x = outs[b] PROVE FALSE
        BY <2>4
      <4>2. b \in 1 .. n /\ b # k + 1
        BY <2>1
      <4>3. QED
        BY <1>1, <2>1, <4>1, <4>2 DEF IsInjective
    <3>3. /\ DOMAIN r = 1 .. Len(r) /\ DOMAIN Append(r, x) = 1 .. Len(r) + 1
          /\ \A i \in 1 .. Len(r) : Append(r, x)[i] = r[i]
          /\ Append(r, x)[Len(r) + 1] = x
          /\ Range(Append(r, x)) = Range(r) \cup {x}
          /\ IsInjective(Append(r, x))
      BY <2>2, <2>4, <3>2, AppendedNode
    <3>4. Deps[x] \subseteq Range(r)
      BY <2>7 DEF Takes
    <3>5. Closed(file, Range(r) \cup {x})
      BY <2>4, <2>7 DEF Closed, Takes
    <3>6. Ordered(Append(r, x))
      <4>1. SUFFICES ASSUME NEW i \in 1 .. Len(r) + 1, NEW j \in 1 .. Len(r) + 1,
                            Append(r, x)[i] \in Deps[Append(r, x)[j]]
                     PROVE  i < j
        BY <3>3 DEF Ordered
      <4>2. Len(r) \in Nat
        BY <2>2
      <4>3. CASE i \in 1 .. Len(r) /\ j \in 1 .. Len(r)
        <5>1. r[i] \in Deps[r[j]]
          BY <3>3, <4>1, <4>3
        <5>2. QED
          BY <2>4, <3>3, <4>3, <5>1 DEF Ordered
      <4>4. CASE i = Len(r) + 1 /\ j \in 1 .. Len(r)
        <5>1. x \in Deps[r[j]] /\ r[j] \in Range(r)
          BY <3>3, <4>1, <4>4 DEF Range
        <5>2. Deps[r[j]] \subseteq Range(r)
          BY <2>4, <5>1 DEF Closed
        <5>3. QED
          BY <3>2, <5>1, <5>2
      <4>5. CASE i = Len(r) + 1 /\ j = Len(r) + 1
        <5>1. x \in Deps[x]
          BY <3>3, <4>1, <4>5
        <5>2. QED
          BY <3>2, <3>4, <5>1
      <4>6. CASE i \in 1 .. Len(r) /\ j = Len(r) + 1
        BY <4>2, <4>6
      <4>7. QED
        BY <4>2, <4>3, <4>4, <4>5, <4>6
    <3>7. Range(h[k + 1]) \subseteq {outs[b] : b \in 1 .. k + 1}
      <4>1. x \in {outs[b] : b \in 1 .. k + 1}
        BY <2>1
      <4>2. QED
        BY <2>4, <2>5, <3>1, <3>3, <4>1
    <3>8. Good(k + 1)
      BY <3>1, <3>3, <3>5, <3>6, <3>7
    <3>9. QED
      BY <2>1, <3>8
  <2>8. QED
    BY <2>6, <2>7
<1> HIDE DEF T
<1>5. n \in T
  <2>1. n \in Nat
    BY <1>1
  <2>2. n \in 0 .. n
    BY <2>1
  <2> HIDE DEF n
  <2>3. 0 .. n \subseteq T
    BY <1>3, <1>4, <2>1, NumberInduction
  <2>4. QED
    BY <2>2, <2>3
<1>6. Good(n) /\ h[n] \in Seq(Nodes)
  BY <1>1, <1>2, <1>5 DEF T
<1>7. QED
  BY <1>2, <1>6

\* Nodes that could be taken over together are, so nothing is missed.
LEMMA ReusableIsMaximal ==
  ASSUME NEW file \in RunFile, WellFormed(file.run),
         NEW S \in SUBSET Nodes, Closed(file, S)
  PROVE  S \subseteq Range(Reusable(file))
<1> DEFINE outs == file.run.outputs
           n == Len(outs)
<1>1. outs \in Seq(Nodes) /\ n \in Nat /\ DOMAIN outs = 1 .. n
  BY DEF RunFile, Run, WellFormed
<1>2. PICK h \in [0 .. n -> Seq(Nodes)] :
        /\ h[0] = << >> /\ Reusable(file) = h[n]
        /\ \A k \in 1 .. n : h[k] = IF Takes(file, outs[k], h[k - 1])
                                       THEN Append(h[k - 1], outs[k]) ELSE h[k - 1]
  BY ReusableUnrolled
<1> DEFINE T == {k \in 0 .. n : \A b \in 1 .. k : outs[b] \in S => outs[b] \in Range(h[k])}
<1>3. 0 \in T
  BY <1>1
<1>4. \A d \in S : \E b \in 1 .. n : outs[b] = d
  <2>1. \A d \in S : d \in Range(outs)
    BY DEF Closed, WellFormed
  <2>2. QED
    BY <1>1, <2>1 DEF Range
<1>5. ASSUME NEW k \in 0 .. n - 1, k \in T PROVE k + 1 \in T
  <2>1. k + 1 \in 1 .. n /\ (k + 1) - 1 = k /\ k \in 0 .. n /\ k + 1 \in 0 .. n
    BY <1>1
  <2> DEFINE x == outs[k + 1]
  <2>2. h[k] \in Seq(Nodes) /\ x \in Nodes
    <3>1. h[k] \in Seq(Nodes)
      BY <2>1
    <3>2. outs[k + 1] \in Nodes
      BY <1>1, <2>1
    <3>3. QED
      BY <3>1, <3>2
  <2>3. h[k + 1] = IF Takes(file, x, h[k]) THEN Append(h[k], x) ELSE h[k]
    BY <1>2, <2>1
  <2>4. Range(h[k]) \subseteq Range(h[k + 1])
    BY <2>2, <2>3, AppendedNode
  <2>5. ASSUME x \in S PROVE x \in Range(h[k + 1])
    <3>1. file.run.state[x] = "completed" /\ file.version[x] = version[x] /\ Deps[x] \subseteq S
      BY <2>5 DEF Closed
    <3>2. ASSUME NEW d \in Deps[x] PROVE d \in Range(h[k])
      <4>1. d \in S
        BY <3>1
      <4>2. PICK b \in 1 .. n : outs[b] = d
        BY <1>4, <4>1
      <4>3. b < k + 1
        <5>1. outs[b] \in Deps[outs[k + 1]]
          BY <4>2
        <5>2. QED
          BY <1>1, <2>1, <5>1 DEF WellFormed, Ordered
      <4>4. b \in 1 .. k
        BY <2>1, <4>3
      <4>5. QED
        BY <1>5, <4>1, <4>2, <4>4
    <3>3. Takes(file, x, h[k])
      BY <3>1, <3>2 DEF Takes
    <3>4. QED
      BY <2>2, <2>3, <3>3, AppendedNode
  <2>6. ASSUME NEW b \in 1 .. k + 1, outs[b] \in S PROVE outs[b] \in Range(h[k + 1])
    <3>1. CASE b = k + 1
      BY <2>5, <2>6, <3>1
    <3>2. CASE b \in 1 .. k
      BY <1>5, <2>4, <2>6, <3>2
    <3>3. QED
      BY <2>1, <3>1, <3>2
  <2>7. QED
    BY <2>1, <2>6
<1>6. n \in T
  <2>1. n \in Nat
    BY <1>1
  <2>2. n \in 0 .. n
    BY <2>1
  <2> HIDE DEF n, T
  <2>3. 0 .. n \subseteq T
    BY <1>3, <1>5, <2>1, NumberInduction
  <2>4. QED
    BY <2>2, <2>3
<1>7. QED
  BY <1>2, <1>4, <1>6

\* The fold of CompletedReverse, one output at a time.
LEMMA CompletedReverseUnrolled ==
  ASSUME NEW run \in Run
  PROVE  LET outs == run.outputs IN
         \E h \in [0 .. Len(outs) -> Seq(Nodes)] :
           /\ h[0] = << >> /\ CompletedReverse(run) = h[Len(outs)]
           /\ \A k \in 1 .. Len(outs) :
                h[k] = IF run.state[outs[k]] = "completed"
                         THEN <<outs[k]>> \o h[k - 1] ELSE h[k - 1]
<1> DEFINE outs == run.outputs
           n == Len(outs)
           B == Seq(Nodes)
           Op(k, r) == IF run.state[outs[k]] = "completed" THEN <<outs[k]>> \o r ELSE r
           step == [k \in 1 .. n |-> [r \in B |-> Op(k, r)]]
           Table(g) == g = [t \in SUBSET (1 .. n) |->
                              IF t = {} THEN << >> ELSE Op(Max(t), g[t \ {Max(t)}])]
           iter == CHOOSE g : Table(g)
<1>1. outs \in Seq(Nodes) /\ n \in Nat /\ DOMAIN outs = 1 .. n
  BY DEF Run
<1>2. CompletedReverse(run) = iter[1 .. n]
  BY <1>1 DEF CompletedReverse, FoldLeft, MapThenFoldSet
<1>3. ASSUME NEW k \in 1 .. n, NEW r \in B PROVE Op(k, r) \in B
  BY <1>1, <1>3
<1>4. \E g : Table(g)
  <2>1. step \in [1 .. n -> [B -> B]]
    BY <1>3
  <2>2. << >> \in B
    OBVIOUS
  <2>3. PICK g \in [SUBSET (1 .. n) -> B] : \A t \in SUBSET (1 .. n) : Folded(g, t, << >>, step)
    BY <1>1, <2>1, <2>2, FoldTable
  <2>4. ASSUME NEW t \in SUBSET (1 .. n), t # {} PROVE g[t] = Op(Max(t), g[t \ {Max(t)}])
    <3>1. Max(t) \in 1 .. n /\ t \ {Max(t)} \in SUBSET (1 .. n)
      BY <1>1, <2>4, MaxOfBounded
    <3>2. g[t \ {Max(t)}] \in B
      BY <2>3, <3>1
    <3>3. g[t] = step[Max(t)][g[t \ {Max(t)}]]
      BY <2>3, <2>4 DEF Folded
    <3> HIDE DEF Op
    <3>4. QED
      BY <3>1, <3>2, <3>3
  <2>5. ASSUME NEW t \in SUBSET (1 .. n), t = {} PROVE g[t] = << >>
    BY <2>3, <2>5 DEF Folded
  <2> HIDE DEF Op
  <2>6. \A t \in SUBSET (1 .. n) : g[t] = IF t = {} THEN << >> ELSE Op(Max(t), g[t \ {Max(t)}])
    BY <2>4, <2>5
  <2>7. g = [t \in SUBSET (1 .. n) |-> g[t]]
    BY <2>3
  <2>8. Table(g)
    BY <2>6, <2>7, Zenon
  <2>9. QED
    BY <2>8
<1>5. Table(iter)
  BY <1>4
<1> HIDE DEF iter
<1>6. iter[{}] = << >>
  BY <1>5
<1>7. ASSUME NEW t \in SUBSET (1 .. n), t # {}, iter[t \ {Max(t)}] \in B
      PROVE  iter[t] = step[Max(t)][iter[t \ {Max(t)}]]
  <2>1. Max(t) \in 1 .. n
    BY <1>1, <1>7, MaxOfBounded
  <2> HIDE DEF Op
  <2>2. iter[t] = Op(Max(t), iter[t \ {Max(t)}])
    BY <1>5, <1>7
  <2>3. QED
    BY <1>7, <2>1, <2>2
<1>8. PICK h \in [0 .. n -> B] :
        /\ h[0] = << >> /\ h[n] = iter[1 .. n]
        /\ \A k \in 1 .. n : h[k] = step[k][h[k - 1]]
  <2>1. step \in [1 .. n -> [B -> B]] /\ << >> \in B
    BY <1>3
  <2>2. IsFold(iter, n, B, << >>, step)
    BY <1>6, <1>7, Zenon DEF IsFold
  <2>3. n \in Nat
    BY <1>1
  <2> HIDE DEF step, n, B
  <2>4. QED
    BY <2>1, <2>2, <2>3, FoldUnrolls
<1>9. ASSUME NEW k \in 1 .. n PROVE h[k] = Op(k, h[k - 1])
  <2>1. h[k - 1] \in B
    BY <1>1, <1>8
  <2> HIDE DEF Op
  <2>2. QED
    BY <1>8, <2>1
<1>10. QED
  BY <1>2, <1>8, <1>9

\* All completed nodes are compensated, and none before one that depends on it.
LEMMA CompletedReverseOrdered ==
  ASSUME NEW run \in Run, WellFormed(run)
  PROVE  LET r == CompletedReverse(run) IN
         /\ r \in Seq(Nodes)
         /\ \A n \in Nodes : run.state[n] = "completed" => n \in Range(r)
         /\ \A i, j \in DOMAIN r : i < j => r[i] \notin Deps[r[j]]
<1> DEFINE outs == run.outputs
           n == Len(outs)
<1>1. outs \in Seq(Nodes) /\ n \in Nat /\ DOMAIN outs = 1 .. n
  BY DEF Run, WellFormed
<1>2. PICK h \in [0 .. n -> Seq(Nodes)] :
        /\ h[0] = << >> /\ CompletedReverse(run) = h[n]
        /\ \A k \in 1 .. n : h[k] = IF run.state[outs[k]] = "completed"
                                       THEN <<outs[k]>> \o h[k - 1] ELSE h[k - 1]
  BY CompletedReverseUnrolled
<1> DEFINE Good(k) ==
             /\ \A b \in 1 .. k : run.state[outs[b]] = "completed" => outs[b] \in Range(h[k])
             /\ \A i \in DOMAIN h[k] : \E b \in 1 .. k : outs[b] = h[k][i]
             /\ \A i, j \in DOMAIN h[k] : i < j => h[k][i] \notin Deps[h[k][j]]
           T == {k \in 0 .. n : Good(k)}
<1>3. 0 \in T
  BY <1>1, <1>2
<1>4. ASSUME NEW k \in 0 .. n - 1, k \in T PROVE k + 1 \in T
  <2>1. k + 1 \in 1 .. n /\ (k + 1) - 1 = k /\ k \in 0 .. n /\ k + 1 \in 0 .. n
    BY <1>1
  <2> DEFINE x == outs[k + 1]
             r == h[k]
             s == <<x>> \o r
  <2>2. h[k] \in Seq(Nodes) /\ x \in Nodes
    <3>1. h[k] \in Seq(Nodes)
      BY <2>1
    <3>2. outs[k + 1] \in Nodes
      BY <1>1, <2>1
    <3>3. QED
      BY <3>1, <3>2
  <2>3. h[k + 1] = IF run.state[x] = "completed" THEN s ELSE r
    BY <1>2, <2>1
  <2>4. Good(k)
    BY <1>4
  <2>5. CASE run.state[x] # "completed"
    <3>1. h[k + 1] = r
      BY <2>3, <2>5
    <3>2. Good(k + 1)
      BY <2>1, <2>4, <2>5, <3>1
    <3>3. QED
      BY <2>1, <3>2
  <2>6. CASE run.state[x] = "completed"
    <3>1. h[k + 1] = s
      BY <2>3, <2>6
    <3>2. /\ Len(r) \in Nat /\ DOMAIN r = 1 .. Len(r) /\ DOMAIN s = 1 .. Len(r) + 1
          /\ s[1] = x /\ \A i \in 1 .. Len(r) : s[i + 1] = r[i]
      BY <2>2
    <3>3. ASSUME NEW i \in 2 .. Len(r) + 1
          PROVE  i - 1 \in 1 .. Len(r) /\ s[i] = r[i - 1]
      <4>1. i - 1 \in 1 .. Len(r) /\ (i - 1) + 1 = i
        BY <3>2
      <4> HIDE DEF s
      <4>2. QED
        BY <3>2, <4>1
    <3> HIDE DEF s
    <3>4. ASSUME NEW b \in 1 .. k + 1, run.state[outs[b]] = "completed"
          PROVE  outs[b] \in Range(s)
      <4>1. CASE b = k + 1
        <5>1. 1 \in DOMAIN s /\ s[1] = outs[b]
          BY <3>2, <4>1
        <5>2. QED
          BY <5>1 DEF Range
      <4>2. CASE b \in 1 .. k
        <5>1. PICK i \in 1 .. Len(r) : outs[b] = r[i]
          BY <2>4, <3>2, <3>4, <4>2 DEF Range
        <5>2. i + 1 \in DOMAIN s /\ s[i + 1] = outs[b]
          BY <3>2, <5>1
        <5>3. QED
          BY <5>2 DEF Range
      <4>3. QED
        BY <2>1, <4>1, <4>2
    <3>5. ASSUME NEW i \in 1 .. Len(r) + 1 PROVE \E b \in 1 .. k + 1 : outs[b] = s[i]
      <4>1. CASE i = 1
        BY <2>1, <3>2, <4>1
      <4>2. CASE i \in 2 .. Len(r) + 1
        <5>1. PICK b \in 1 .. k : outs[b] = r[i - 1]
          BY <2>4, <3>2, <3>3, <4>2
        <5>2. b \in 1 .. k + 1 /\ outs[b] = s[i]
          BY <2>1, <3>3, <4>2, <5>1
        <5>3. QED
          BY <5>2
      <4>3. QED
        BY <3>2, <4>1, <4>2
    <3>6. ASSUME NEW i \in 1 .. Len(r) + 1, NEW j \in 1 .. Len(r) + 1, i < j
          PROVE  s[i] \notin Deps[s[j]]
      <4>1. j \in 2 .. Len(r) + 1 /\ s[j] = r[j - 1] /\ j - 1 \in 1 .. Len(r)
        BY <3>2, <3>3, <3>6
      <4>2. CASE i = 1
        <5>1. PICK b \in 1 .. k : outs[b] = r[j - 1]
          BY <2>4, <3>2, <4>1
        <5>2. b \in 1 .. n /\ ~ (k + 1 < b)
          BY <2>1
        <5>3. outs[k + 1] \notin Deps[outs[b]]
          BY <1>1, <2>1, <5>2 DEF WellFormed, Ordered
        <5>4. QED
          BY <3>2, <4>1, <4>2, <5>1, <5>3
      <4>3. CASE i \in 2 .. Len(r) + 1
        <5>1. i - 1 \in 1 .. Len(r) /\ s[i] = r[i - 1] /\ i - 1 < j - 1
          BY <3>3, <3>6, <4>1, <4>3
        <5>2. QED
          BY <2>4, <3>2, <4>1, <5>1
      <4>4. QED
        BY <3>2, <4>2, <4>3
    <3>7. Good(k + 1)
      BY <3>1, <3>2, <3>4, <3>5, <3>6
    <3>8. QED
      BY <2>1, <3>7
  <2>7. QED
    BY <2>5, <2>6
<1>5. n \in T
  <2>1. n \in Nat
    BY <1>1
  <2>2. n \in 0 .. n
    BY <2>1
  <2> HIDE DEF n, T
  <2>3. 0 .. n \subseteq T
    BY <1>3, <1>4, <2>1, NumberInduction
  <2>4. QED
    BY <2>2, <2>3
<1>6. h[n] \in Seq(Nodes) /\ Good(n)
  BY <1>1, <1>5
<1>7. ASSUME NEW m \in Nodes, run.state[m] = "completed" PROVE m \in Range(h[n])
  <2>1. m \in Range(outs)
    BY <1>7 DEF WellFormed
  <2>2. PICK b \in 1 .. n : outs[b] = m
    BY <1>1, <2>1 DEF Range
  <2>3. QED
    BY <1>6, <1>7, <2>2
<1>8. QED
  BY <1>2, <1>6, <1>7

-----------------------------------------------------------------------------
(* The files *)

LEMMA OrderFacts ==
  /\ Order \in Seq(Nodes) /\ Len(Order) \in Nat /\ DOMAIN Order = 1 .. Len(Order)
  /\ \A i \in 1 .. Len(Order) : Order[i] \in Nodes
  /\ \A i, j \in 1 .. Len(Order) : Order[i] = Order[j] => i = j
  /\ \A i, j \in 1 .. Len(Order) : Order[i] \in Deps[Order[j]] => i < j
BY OrderAssumption DEF ValidOrder, IsInjective

\* The newest usable file.
LEMMA NewestUsable ==
  ASSUME runs \in Seq(RunFile), Usable # {}
  PROVE  Max(Usable) \in Usable /\ \A i \in Usable : i <= Max(Usable)
<1>1. Len(runs) \in Nat /\ Usable \subseteq 1 .. Len(runs)
  BY DEF Usable
<1>2. QED
  BY <1>1, MaxOfBounded

\* The run's file replaces its last version, or is a new one after all others.
LEMMA PersistedShape ==
  ASSUME WInv, pc # "idle", NEW run \in Run, NEW status \in RunStatuses, Persist(run, status)
  PROVE  LET k == Len(runs')
             file == [run |-> run, status |-> status, version |-> version]
         IN  /\ runs' \in Seq(RunFile) /\ k \in Nat /\ 1 <= k /\ k <= MaxRuns
             /\ DOMAIN runs' = 1 .. k /\ runs'[k] = file /\ Last(runs') = file
             /\ Unsaved = 1 .. k - 1 /\ Unsaved \subseteq DOMAIN runs
             /\ \A i \in Unsaved : runs'[i] = runs[i]
             /\ saved' = TRUE /\ runs' # << >>
<1> DEFINE file == [run |-> run, status |-> status, version |-> version]
<1>1. /\ runs \in Seq(RunFile) /\ Len(runs) \in Nat /\ DOMAIN runs = 1 .. Len(runs)
      /\ Len(runs) <= MaxRuns
  BY DEF WInv, FilesOK
<1>2. saved' = TRUE /\ runs' = IF saved THEN [runs EXCEPT ![Len(runs)] = file]
                                ELSE Append(runs, file)
  BY DEF Persist
<1>3. file \in RunFile
  BY DEF RunFile, WInv, Simple
<1> HIDE DEF file
<1> DEFINE k == Len(runs')
           Shape == /\ runs' \in Seq(RunFile) /\ k \in Nat /\ 1 <= k /\ k <= MaxRuns
                    /\ runs'[k] = file
                    /\ Unsaved = 1 .. k - 1 /\ Unsaved \subseteq DOMAIN runs
                    /\ \A i \in Unsaved : runs'[i] = runs[i]
<1>4. ASSUME saved PROVE Shape
  <2>1. runs # << >> /\ Len(runs) >= 1 /\ Len(runs) \in DOMAIN runs
    BY <1>1, <1>4 DEF WInv, RunningOK
  <2>2. runs' = [runs EXCEPT ![Len(runs)] = file]
    BY <1>2, <1>4
  <2>3. runs' \in Seq(RunFile) /\ k = Len(runs)
    BY <1>1, <1>3, <2>1, <2>2
  <2>4. runs'[Len(runs)] = file
    BY <2>1, <2>2, Zenon
  <2>5. ASSUME NEW i \in 1 .. Len(runs) - 1 PROVE runs'[i] = runs[i] /\ i \in DOMAIN runs
    <3>1. i \in DOMAIN runs /\ i # Len(runs)
      <4> HIDE DEF Shape, k
      <4>1. Len(runs) \in Nat /\ DOMAIN runs = 1 .. Len(runs)
        BY <1>1
      <4>2. Len(runs) \in Nat => i \in 1 .. Len(runs) /\ i # Len(runs)
        OBVIOUS
      <4>3. QED
        BY <4>1, <4>2
    <3>2. QED
      BY <2>2, <3>1, Zenon
  <2>6. Unsaved = 1 .. Len(runs) - 1
    BY <1>1, <1>4, <2>1 DEF Unsaved
  <2> HIDE DEF k
  <2>7. QED
    BY <1>1, <2>1, <2>3, <2>4, <2>5, <2>6
<1>5. ASSUME ~saved PROVE Shape
  <2>1. Len(runs) < MaxRuns
    BY <1>5 DEF WInv, RunningOK
  <2>2. runs' = Append(runs, file)
    BY <1>2, <1>5
  <2>3. runs' \in Seq(RunFile) /\ k = Len(runs) + 1
    BY <1>1, <1>3, <2>2
  <2>4. runs'[Len(runs) + 1] = file /\ \A i \in 1 .. Len(runs) : runs'[i] = runs[i]
    BY <1>1, <2>2
  <2>5. Unsaved = 1 .. Len(runs)
    BY <1>1, <1>5 DEF Unsaved
  <2> HIDE DEF k
  <2>6. QED
    BY <1>1, <2>1, <2>3, <2>4, <2>5, NodesAssumption
<1>6. Shape
  <2>1. saved \in BOOLEAN
    BY DEF WInv, Simple
  <2>2. QED
    BY <1>4, <1>5, <2>1
<1>7. DOMAIN runs' = 1 .. k /\ Last(runs') = runs'[k] /\ runs' # << >>
  BY <1>6 DEF Last
<1>8. QED
  BY <1>2, <1>6, <1>7 DEF file

\* Saving a run whose completed nodes are up to date keeps the files in order.
LEMMA PersistKeepsFiles ==
  ASSUME WInv, pc # "idle", NEW run \in Run, WellFormed(run), NEW status \in RunStatuses,
         Persist(run, status), UNCHANGED <<version, ran, ranAt, stale>>,
         \A n \in Nodes : run.state[n] = "completed" => UpToDate(n),
         \A n \in cur.reused : run.state[n] = "completed"
  PROVE  /\ FilesOK'
         /\ \A i \in (Usable \cap Unsaved)' : \A S \in SUBSET Nodes :
              Closed(runs[i], S)' => S \subseteq cur.reused
<1> DEFINE k == Len(runs')
           file == [run |-> run, status |-> status, version |-> version]
<1>1. /\ runs' \in Seq(RunFile) /\ k \in Nat /\ 1 <= k /\ k <= MaxRuns
      /\ DOMAIN runs' = 1 .. k /\ runs'[k] = file
      /\ Unsaved = 1 .. k - 1 /\ Unsaved \subseteq DOMAIN runs
      /\ \A i \in Unsaved : runs'[i] = runs[i]
      /\ saved' = TRUE
  BY PersistedShape
<1>2. /\ file.run = run /\ file.version = version
  OBVIOUS
<1> HIDE DEF file
<1>3. ASSUME NEW i \in DOMAIN runs', i # k
      PROVE  i \in Unsaved /\ runs'[i] = runs[i] /\ i \in DOMAIN runs
  BY <1>1, <1>3
<1>4. ASSUME NEW i \in Usable', i # k
      PROVE  i \in Usable \cap Unsaved /\ runs'[i] = runs[i]
  <2>1. i \in DOMAIN runs'
    BY <1>4 DEF Usable
  <2>2. i \in Unsaved /\ runs'[i] = runs[i] /\ i \in DOMAIN runs
    BY <1>3, <1>4, <2>1
  <2>3. QED
    BY <1>4, <2>2 DEF Usable
<1>5. \A S \in SUBSET Nodes : \A i \in DOMAIN runs' :
        Closed(runs[i], S)' <=> Closed(runs'[i], S)
  BY DEF Closed
<1>6. ASSUME NEW i \in Usable', i # k, NEW S \in SUBSET Nodes, Closed(runs'[i], S)
      PROVE  S \subseteq cur.reused /\ Closed(runs[i], S)
  <2>1. i \in Usable \cap Unsaved /\ runs'[i] = runs[i]
    BY <1>4, <1>6
  <2>2. Closed(runs[i], S)
    BY <1>6, <2>1
  <2>3. QED
    BY <2>1, <2>2 DEF WInv, RunningOK
<1>7. ASSUME NEW S \in SUBSET Nodes, Closed(runs'[k], S)
      PROVE  \A n \in S : UpToDate(n)
  BY <1>1, <1>2, <1>7 DEF Closed
<1>8. \A n \in Nodes : UpToDate(n)' <=> UpToDate(n)
  BY DEF UpToDate
<1>9. /\ runs' \in Seq(RunFile) /\ Len(runs') <= MaxRuns
  BY <1>1
<1>10. \A i \in DOMAIN runs' :
         WellFormed(runs'[i].run) /\ \A n \in Nodes : runs'[i].version[n] <= version[n]
  <2>1. SUFFICES ASSUME NEW i \in DOMAIN runs'
                 PROVE  /\ WellFormed(runs'[i].run)
                        /\ \A n \in Nodes : runs'[i].version[n] <= version[n]
    OBVIOUS
  <2>2. CASE i = k
    BY <1>1, <1>2, <2>2 DEF WInv, Simple
  <2>3. CASE i # k
    <3>1. runs'[i] = runs[i] /\ i \in DOMAIN runs
      BY <1>3, <2>3
    <3>2. QED
      BY <3>1 DEF WInv, FilesOK
  <2>4. QED
    BY <2>2, <2>3
<1>11. \A i, j \in Usable' : \A S \in SUBSET Nodes :
         i <= j /\ Closed(runs'[i], S) => Closed(runs'[j], S)
  <2>1. SUFFICES ASSUME NEW i \in Usable', NEW j \in Usable', NEW S \in SUBSET Nodes,
                        i <= j, Closed(runs'[i], S)
                 PROVE  Closed(runs'[j], S)
    OBVIOUS
  <2>2. i \in 1 .. k /\ j \in 1 .. k
    BY <1>1 DEF Usable
  <2>3. CASE i = k
    <3>1. j = k
      <4> HIDE DEF k
      <4>1. QED
        BY <1>1, <2>1, <2>2, <2>3
    <3>2. QED
      BY <2>1, <2>3, <3>1
  <2>4. CASE i # k /\ j = k
    <3>1. S \subseteq cur.reused /\ Closed(runs[i], S)
      BY <1>6, <2>1, <2>4
    <3>2. \A n \in S : run.state[n] = "completed" /\ Deps[n] \subseteq S
      BY <3>1 DEF Closed
    <3>3. QED
      BY <1>1, <1>2, <2>4, <3>2 DEF Closed
  <2>5. CASE i # k /\ j # k
    <3>1. /\ i \in Usable \cap Unsaved /\ runs'[i] = runs[i]
          /\ j \in Usable \cap Unsaved /\ runs'[j] = runs[j]
      BY <1>4, <2>5
    <3>2. Closed(runs[i], S)
      BY <2>1, <3>1
    <3>3. Closed(runs[j], S)
      BY <2>1, <3>1, <3>2 DEF WInv, FilesOK
    <3>4. QED
      BY <3>1, <3>3
  <2>6. QED
    BY <2>3, <2>4, <2>5
<1>12. \A i \in Usable' : \A S \in SUBSET Nodes :
         Closed(runs'[i], S) => \A n \in S : UpToDate(n)
  <2>1. SUFFICES ASSUME NEW i \in Usable', NEW S \in SUBSET Nodes, Closed(runs'[i], S)
                 PROVE  \A n \in S : UpToDate(n)
    OBVIOUS
  <2>2. CASE i = k
    BY <1>7, <2>1, <2>2
  <2>3. CASE i # k
    <3>1. Closed(runs[i], S) /\ i \in Usable
      BY <1>4, <1>6, <2>1, <2>3
    <3>2. QED
      BY <3>1 DEF WInv, FilesOK
  <2>4. QED
    BY <2>2, <2>3
<1>13. Usable' \subseteq DOMAIN runs'
  BY DEF Usable
<1>14. FilesOK'
  BY <1>5, <1>8, <1>9, <1>10, <1>11, <1>12, <1>13 DEF FilesOK
<1>15. ASSUME NEW i \in (Usable \cap Unsaved)', NEW S \in SUBSET Nodes, Closed(runs[i], S)'
       PROVE  S \subseteq cur.reused
  <2>1. i \in Usable' /\ i # k /\ i \in DOMAIN runs'
    BY <1>1 DEF Unsaved, Usable
  <2>2. Closed(runs'[i], S)
    BY <1>5, <1>15, <2>1
  <2>3. QED
    BY <1>6, <2>1, <2>2
<1>16. QED
  BY <1>14, <1>15

-----------------------------------------------------------------------------
(* The steps *)

LEMMA FilesKept ==
  ASSUME FilesOK, UNCHANGED <<version, runs, ran, ranAt, stale>>
  PROVE  FilesOK'
BY DEF FilesOK, Usable, Closed, UpToDate

LEMMA NewRunIsWellFormed == WellFormed(NewRun)
<1>1. NewRun.outputs \in Seq(Nodes) /\ Len(NewRun.outputs) = 0 /\ DOMAIN NewRun.outputs = {}
  BY DEF NewRun
<1>2. NewRun \in Run
  BY DEF NewRun, Run, Outcomes
<1>3. Range(NewRun.outputs) = {}
  BY <1>1 DEF Range
<1>4. QED
  BY <1>1, <1>2, <1>3 DEF WellFormed, NewRun, IsInjective, Ordered

LEMMA InitInvariant == Init => WInv
<1> SUFFICES ASSUME Init PROVE WInv
  OBVIOUS
<1> USE DEF Init
<1>1. WellFormed(cur)
  BY NewRunIsWellFormed
<1>2. Simple
  BY DEF Simple
<1>3. runs \in Seq(RunFile) /\ Len(runs) = 0 /\ DOMAIN runs = {}
  OBVIOUS
<1>4. FilesOK
  BY <1>3, NodesAssumption DEF FilesOK, Usable
<1>5. Progress
  BY OrderFacts DEF Progress
<1>6. RunningOK /\ FailedIsCompensated /\ ReuseIsMaximal
  BY <1>3 DEF RunningOK, FailedIsCompensated, ReuseIsMaximal
<1>7. Compensating /\ CompensatesDependentsFirst
  BY DEF Compensating, CompensatesDependentsFirst
<1>8. QED
  BY <1>1, <1>2, <1>4, <1>5, <1>6, <1>7 DEF WInv

\* The node the run is at, in the order.
LEMMA CurrentFacts ==
  ASSUME WInv, at <= Len(Order)
  PROVE  /\ at \in 1 .. Len(Order) /\ Current \in Nodes /\ Current = Order[at]
         /\ Current \notin Deps[Current] /\ Retries[Current] \in Nat
<1>1. at \in 1 .. Len(Order)
  BY OrderFacts DEF WInv, Progress
<1>2. Current \in Nodes /\ Current = Order[at]
  BY <1>1, OrderFacts DEF Current
<1>3. Current \notin Deps[Current]
  BY <1>1, <1>2, OrderFacts
<1>4. QED
  BY <1>1, <1>2, <1>3, NodesAssumption

\* A completed node is not the current one and does not depend on it.
LEMMA CurrentIsAfter ==
  ASSUME WInv, at <= Len(Order), pc \in {"node", "execute", "record"},
         Current \notin cur.reused, NEW n \in Range(cur.outputs)
  PROVE  n # Current /\ Current \notin Deps[n]
<1>1. at \in 1 .. Len(Order) /\ Current = Order[at]
  BY CurrentFacts
<1>2. n \in cur.reused \/ \E i \in 1 .. at - 1 : Order[i] = n
  BY DEF WInv, Progress
<1>3. CASE n \in cur.reused
  BY <1>3 DEF WInv, WellFormed
<1>4. CASE \E i \in 1 .. at - 1 : Order[i] = n
  <2>1. PICK i \in 1 .. at - 1 : Order[i] = n
    BY <1>4
  <2>2. i \in 1 .. Len(Order) /\ i # at /\ ~ (at < i)
    BY <1>1, OrderFacts
  <2>3. QED
    BY <1>1, <2>1, <2>2, OrderFacts
<1>5. QED
  BY <1>2, <1>3, <1>4

LEMMA CompletedIsOutput ==
  ASSUME NEW run, WellFormed(run), NEW n \in Nodes, run.state[n] = "completed"
  PROVE  n \in Range(run.outputs)
BY DEF WellFormed

LEMMA StartNodeKeeps == WInv /\ StartNode => WInv'
<1> SUFFICES ASSUME WInv, StartNode PROVE WInv'
  OBVIOUS
<1>0. Simple /\ WellFormed(cur) /\ FilesOK /\ Progress /\ RunningOK /\ Compensating
      /\ CompensatesDependentsFirst /\ FailedIsCompensated
  BY DEF WInv
<1>1. Simple'
  BY <1>0 DEF Simple, StartNode, world
<1>2. WellFormed(cur)'
  BY <1>0 DEF StartNode
<1>3. FilesOK'
  BY <1>0, FilesKept DEF StartNode, world
<1>4. Progress'
  BY <1>0, CurrentFacts DEF Progress, StartNode, Current
<1>5. RunningOK'
  BY <1>0 DEF RunningOK, StartNode, Usable, Unsaved, Closed, UpToDate, world
<1>6. Compensating' /\ CompensatesDependentsFirst' /\ FailedIsCompensated' /\ ReuseIsMaximal'
  BY <1>0 DEF Compensating, CompensatesDependentsFirst, FailedIsCompensated,
              ReuseIsMaximal, StartNode, world
<1>7. QED
  BY <1>1, <1>2, <1>3, <1>4, <1>5, <1>6 DEF WInv

LEMMA MinOfPair ==
  ASSUME NEW a \in Int, NEW b \in Int, a <= b
  PROVE  Min({a, b}) = a
<1>1. \E x \in {a, b} : \A y \in {a, b} : x <= y
  OBVIOUS
<1>2. Min({a, b}) \in {a, b} /\ \A y \in {a, b} : Min({a, b}) <= y
  BY <1>1, Zenon DEF Min
<1>3. QED
  BY <1>2

LEMMA RetryKeeps == WInv /\ Retry => WInv'
<1> SUFFICES ASSUME WInv, Retry PROVE WInv'
  OBVIOUS
<1>0. Simple /\ WellFormed(cur) /\ FilesOK /\ Progress /\ RunningOK /\ Compensating
      /\ CompensatesDependentsFirst /\ FailedIsCompensated
  BY DEF WInv
<1>1. retried' = retried + 1 /\ retried + 1 <= Retries[Current] /\ retried \in Nat
      /\ at <= Len(Order)
  <2>1. at <= Len(Order) /\ retried \in Nat /\ retried < Retries[Current]
        /\ retried' = Min({retried + 1, Retries[Current] + 1})
    BY <1>0 DEF Retry, RetriesLeft, Progress, Simple
  <2>2. Retries[Current] \in Nat
    BY <2>1, CurrentFacts
  <2>3. QED
    BY <2>1, <2>2, MinOfPair
<1>2. Simple'
  BY <1>0, <1>1 DEF Simple, Retry, world
<1>3. WellFormed(cur)'
  BY <1>0 DEF Retry
<1>4. FilesOK'
  BY <1>0, FilesKept DEF Retry, world
<1>5. Progress'
  BY <1>0, <1>1 DEF Progress, Retry, Current
<1>6. RunningOK'
  BY <1>0 DEF RunningOK, Retry, Usable, Unsaved, Closed, UpToDate, world
<1>7. Compensating' /\ CompensatesDependentsFirst' /\ FailedIsCompensated' /\ ReuseIsMaximal'
  BY <1>0 DEF Compensating, CompensatesDependentsFirst, FailedIsCompensated,
              ReuseIsMaximal, Retry, world
<1>8. QED
  BY <1>2, <1>3, <1>4, <1>5, <1>6, <1>7 DEF WInv

\* A run that has the outcome of the current node too.
LEMMA RecordedRun ==
  ASSUME WInv, at <= Len(Order), pc \in {"node", "record"}, Current \notin cur.reused,
         NEW outcome \in {"completed", "failed", "skipped"}
  PROVE  LET run == [cur EXCEPT !.outputs = Append(@, Current), !.state[Current] = outcome]
         IN  /\ run \in Run /\ WellFormed(run)
             /\ run.reused = cur.reused
             /\ Range(run.outputs) = Range(cur.outputs) \cup {Current}
             /\ run.state[Current] = outcome /\ cur.state[Current] = "none"
             /\ \A n \in Nodes : n # Current => run.state[n] = cur.state[n]
<1> DEFINE run == [cur EXCEPT !.outputs = Append(@, Current), !.state[Current] = outcome]
           r == cur.outputs
           s == Append(r, Current)
<1>1. /\ cur \in Run /\ IsInjective(r) /\ Ordered(r)
      /\ \A n \in Nodes : cur.state[n] = "none" <=> n \notin Range(r)
      /\ \A n \in cur.reused : cur.state[n] = "completed" /\ Deps[n] \subseteq cur.reused
  BY DEF WInv, WellFormed
<1>2. at \in 1 .. Len(Order) /\ Current \in Nodes /\ Current \notin Deps[Current]
  BY CurrentFacts
<1>3. /\ r \in Seq(Nodes) /\ cur.state \in [Nodes -> Outcomes] /\ cur.reused \subseteq Nodes
  BY <1>1 DEF Run
<1>4. /\ run.outputs = s /\ run.reused = cur.reused
      /\ run.state = [cur.state EXCEPT ![Current] = outcome]
  BY <1>1 DEF Run
<1>5. s \in Seq(Nodes)
  BY <1>2, <1>3
<1>6. /\ s \in Seq(Nodes) /\ Len(r) \in Nat
      /\ DOMAIN r = 1 .. Len(r) /\ DOMAIN s = 1 .. Len(r) + 1
      /\ \A i \in 1 .. Len(r) : s[i] = r[i]
      /\ s[Len(r) + 1] = Current /\ Range(s) = Range(r) \cup {Current}
      /\ IsInjective(r) /\ Current \notin Range(r) => IsInjective(s)
  BY <1>2, <1>3, AppendedNode
<1>7. \A n \in Range(r) : n # Current /\ Current \notin Deps[n]
  BY CurrentIsAfter
<1>8. /\ run.state \in [Nodes -> Outcomes] /\ run.state[Current] = outcome
      /\ \A n \in Nodes : n # Current => run.state[n] = cur.state[n]
  BY <1>2, <1>3, <1>4 DEF Outcomes
<1>9. run \in Run
  <2>1. outcome \in Outcomes
    BY DEF Outcomes
  <2> HIDE DEF s
  <2>2. run = [cur EXCEPT !.outputs = s, !.state[Current] = outcome]
    BY DEF s
  <2> HIDE DEF run
  <2>3. QED
    BY <1>1, <1>2, <1>5, <2>1, <2>2 DEF Run
<1> HIDE DEF run, s, r
<1>10. IsInjective(s)
  BY <1>1, <1>6, <1>7
<1>11. ASSUME NEW i \in 1 .. Len(r) + 1, NEW j \in 1 .. Len(r) + 1, s[i] \in Deps[s[j]]
       PROVE  i < j
  <2>1. CASE i = Len(r) + 1 /\ j = Len(r) + 1
    BY <1>2, <1>6, <1>11, <2>1
  <2>2. CASE i = Len(r) + 1 /\ j \in 1 .. Len(r)
    <3>1. r[j] \in Range(r) /\ s[j] = r[j] /\ s[i] = Current
      BY <1>6, <2>2 DEF Range
    <3>2. QED
      BY <1>7, <1>11, <3>1
  <2>3. CASE i \in 1 .. Len(r) /\ j = Len(r) + 1
    BY <1>6, <2>3
  <2>4. CASE i \in 1 .. Len(r) /\ j \in 1 .. Len(r)
    BY <1>1, <1>6, <1>11, <2>4 DEF Ordered
  <2>5. QED
    BY <1>6, <2>1, <2>2, <2>3, <2>4
<1>12. Ordered(s)
  BY <1>6, <1>11 DEF Ordered
<1>13. ASSUME NEW n \in Nodes PROVE run.state[n] = "none" <=> n \notin Range(s)
  BY <1>1, <1>6, <1>8
<1>14. \A n \in run.reused : run.state[n] = "completed" /\ Deps[n] \subseteq run.reused
  BY <1>1, <1>3, <1>4, <1>8
<1>15. WellFormed(run)
  BY <1>4, <1>9, <1>10, <1>12, <1>13, <1>14 DEF WellFormed
<1>16. cur.state[Current] = "none"
  BY <1>1, <1>2, <1>7
<1>17. QED
  BY <1>4, <1>6, <1>8, <1>9, <1>15, <1>16 DEF run, r, s

LEMMA SkipNodeKeeps == WInv /\ SkipNode => WInv'
<1> SUFFICES ASSUME WInv, SkipNode PROVE WInv'
  OBVIOUS
<1>0. Simple /\ WellFormed(cur) /\ FilesOK /\ Progress /\ RunningOK /\ Compensating
      /\ CompensatesDependentsFirst /\ FailedIsCompensated /\ ReuseIsMaximal
  BY DEF WInv
<1>1. /\ pc = "node" /\ pc' = "node" /\ at <= Len(Order) /\ at' = at + 1
      /\ Current \notin cur.reused
      /\ cur' = [cur EXCEPT !.outputs = Append(@, Current), !.state[Current] = "skipped"]
      /\ UNCHANGED <<version, runs, saved, retried, result, todo, ended, world>>
  BY DEF SkipNode
<1>2. /\ WellFormed(cur') /\ cur'.reused = cur.reused
      /\ Range(cur'.outputs) = Range(cur.outputs) \cup {Current}
      /\ cur'.state[Current] = "skipped" /\ cur.state[Current] = "none"
      /\ \A n \in Nodes : n # Current => cur'.state[n] = cur.state[n]
  BY <1>1, RecordedRun
<1>3. at \in 1 .. Len(Order) /\ Current \in Nodes /\ Current = Order[at]
  BY <1>1, CurrentFacts
<1>4. WellFormed(cur)'
  BY <1>2 DEF WellFormed, Ordered
<1>5. Simple'
  BY <1>0, <1>1 DEF Simple, world
<1>6. FilesOK'
  BY <1>0, <1>1, FilesKept DEF world
<1>7. Progress'
  <2>1. at' \in 1 .. Len(Order) + 1
    BY <1>1, <1>3, OrderFacts
  <2>2. ASSUME NEW n \in Range(cur'.outputs)
        PROVE  n \in cur'.reused \/ \E i \in 1 .. at' - 1 : Order[i] = n
    <3>1. CASE n = Current
      BY <1>1, <1>3, <3>1
    <3>2. CASE n \in Range(cur.outputs)
      <4>1. n \in cur.reused \/ \E i \in 1 .. at - 1 : Order[i] = n
        BY <1>0, <1>1, <3>2 DEF Progress
      <4>2. 1 .. at - 1 \subseteq 1 .. at' - 1
        BY <1>1, <1>3
      <4>3. QED
        BY <1>2, <4>1, <4>2
    <3>3. QED
      BY <1>2, <3>1, <3>2
  <2>3. QED
    BY <1>1, <2>1, <2>2 DEF Progress
<1>8. RunningOK'
  <2>1. \A n \in Nodes : cur'.state[n] = "completed" => n # Current /\ cur.state[n] = "completed"
    BY <1>2
  <2>2. \A n \in Nodes : cur.state[n] = "completed" => cur'.state[n] = "completed"
    BY <1>2
  <2>3. QED
    BY <1>0, <1>1, <1>2, <2>1, <2>2 DEF RunningOK, Usable, Unsaved, Closed, UpToDate, world
<1>9. Compensating' /\ CompensatesDependentsFirst' /\ FailedIsCompensated'
  BY <1>0, <1>1 DEF Compensating, CompensatesDependentsFirst, FailedIsCompensated, world
<1>10. ReuseIsMaximal'
  BY <1>0, <1>1, <1>2 DEF ReuseIsMaximal, Usable
<1>11. QED
  BY <1>4, <1>5, <1>6, <1>7, <1>8, <1>9, <1>10 DEF WInv

\* Executing the current node takes nothing from what is on record of others.
LEMMA AttemptKeeps == WInv /\ Attempt => WInv'
<1> SUFFICES ASSUME WInv, Attempt PROVE WInv'
  OBVIOUS
<1>0. Simple /\ WellFormed(cur) /\ FilesOK /\ Progress /\ RunningOK /\ Compensating
      /\ CompensatesDependentsFirst /\ FailedIsCompensated
  BY DEF WInv
<1>1. /\ pc = "execute" /\ pc' = "record" /\ result' \in {"completed", "failed"}
      /\ ran' = [ran EXCEPT ![Current] = result']
      /\ ranAt' = [ranAt EXCEPT ![Current] = version[Current]]
      /\ stale' = (stale \ {Current}) \cup {n \in Nodes : Current \in Deps[n]}
      /\ undone' = undone \ {Current}
      /\ UNCHANGED <<version, runs, cur, saved, at, retried, todo, ended>>
  BY DEF Attempt
<1>2. at <= Len(Order) /\ Current \notin cur.reused
  BY <1>0, <1>1 DEF Progress, Current
<1>3. /\ at \in 1 .. Len(Order) /\ Current \in Nodes /\ Current = Order[at]
      /\ Current \notin Deps[Current]
  BY <1>2, CurrentFacts
<1>4. Current' = Current
  BY <1>1 DEF Current
<1>5. Simple'
  BY <1>0, <1>1, <1>3 DEF Simple
<1>6. WellFormed(cur)'
  BY <1>0, <1>1
<1>7. ASSUME NEW n \in Nodes, cur.state[n] = "completed"
      PROVE  n # Current /\ Current \notin Deps[n]
  BY <1>0, <1>1, <1>2, <1>7, CompletedIsOutput, CurrentIsAfter
<1>8. ASSUME NEW n \in Nodes, cur.state[n] = "completed", UpToDate(n) PROVE UpToDate(n)'
  BY <1>0, <1>1, <1>3, <1>7, <1>8 DEF UpToDate, Simple
<1>9. ASSUME NEW i \in Usable, NEW S \in SUBSET Nodes, Closed(runs[i], S), NEW n \in S
      PROVE  n \in Nodes /\ cur.state[n] = "completed"
  <2>1. CASE i \in Unsaved
    BY <1>0, <1>1, <1>9, <2>1 DEF RunningOK, WellFormed
  <2>2. CASE i \notin Unsaved
    <3>1. saved /\ i = Len(runs)
      BY <2>2 DEF Unsaved, Usable
    <3>2. Last(runs).run.state[n] = "completed"
      BY <1>9, <3>1 DEF Closed, Last
    <3>3. QED
      BY <1>0, <1>1, <3>1, <3>2 DEF RunningOK
  <2>3. QED
    BY <2>1, <2>2
<1>10. FilesOK'
  <2>1. Usable' = Usable /\ runs' = runs /\ version' = version
    BY <1>1 DEF Usable
  <2>2. \A i \in Usable : \A S \in SUBSET Nodes : Closed(runs[i], S)' <=> Closed(runs[i], S)
    BY <1>1 DEF Closed
  <2>3. ASSUME NEW i \in Usable, NEW S \in SUBSET Nodes, Closed(runs[i], S), NEW n \in S
        PROVE  UpToDate(n)'
    BY <1>0, <1>8, <1>9, <2>3 DEF FilesOK
  <2>4. QED
    BY <1>0, <2>1, <2>2, <2>3 DEF FilesOK
<1>11. Progress'
  <2>1. /\ ran'[Current] = result' /\ ranAt'[Current] = version[Current]
        /\ Current \notin stale'
    BY <1>0, <1>1, <1>3 DEF Simple
  <2>2. QED
    BY <1>0, <1>1, <1>3, <2>1 DEF Progress
<1>12. RunningOK'
  <2>1. \A n \in Nodes : cur.state[n] = "completed" => UpToDate(n)'
    BY <1>0, <1>1, <1>8 DEF RunningOK
  <2>2. QED
    BY <1>0, <1>1, <2>1 DEF RunningOK, Usable, Unsaved, Closed
<1>13. Compensating' /\ CompensatesDependentsFirst' /\ FailedIsCompensated' /\ ReuseIsMaximal'
  BY <1>0, <1>1 DEF Compensating, CompensatesDependentsFirst, FailedIsCompensated,
                    ReuseIsMaximal, RunningOK
<1>14. QED
  BY <1>5, <1>6, <1>10, <1>11, <1>12, <1>13 DEF WInv

\* What a saved run that goes on needs to satisfy RunningOK.
LEMMA SavedRunGoesOn ==
  ASSUME WInv, pc # "idle", Persist(cur', "running") \/ Persist(cur', "failed"),
         UNCHANGED <<version, ran, ranAt, stale, ended>>,
         WellFormed(cur'), cur'.reused = cur.reused,
         \A n \in Nodes : cur'.state[n] = "completed" => UpToDate(n)
  PROVE  FilesOK' /\ RunningOK' /\ Last(runs').run = cur' /\ saved'
<1>1. PICK status \in {"running", "failed"} : Persist(cur', status)
  OBVIOUS
<1>2. status \in RunStatuses /\ cur' \in Run
  BY DEF RunStatuses, WellFormed
<1>3. /\ runs' # << >> /\ saved' = TRUE
      /\ Last(runs') = [run |-> cur', status |-> status, version |-> version]
  BY <1>1, <1>2, PersistedShape
<1>4. \A n \in cur'.reused : cur'.state[n] = "completed"
  BY DEF WellFormed
<1>5. /\ FilesOK'
      /\ \A i \in (Usable \cap Unsaved)' : \A S \in SUBSET Nodes :
           Closed(runs[i], S)' => S \subseteq cur.reused
  BY <1>1, <1>2, <1>4, PersistKeepsFiles
<1>6. ~ended'
  BY DEF WInv, RunningOK
<1>7. \A n \in Nodes : UpToDate(n)' <=> UpToDate(n)
  BY DEF UpToDate
<1>8. RunningOK'
  BY <1>3, <1>4, <1>5, <1>6, <1>7 DEF RunningOK
<1>9. QED
  BY <1>3, <1>5, <1>8

LEMMA ReuseNodeKeeps == WInv /\ ReuseNode => WInv'
<1> SUFFICES ASSUME WInv, ReuseNode PROVE WInv'
  OBVIOUS
<1>0. Simple /\ WellFormed(cur) /\ FilesOK /\ Progress /\ RunningOK /\ Compensating
      /\ CompensatesDependentsFirst /\ FailedIsCompensated
  BY DEF WInv
<1>1. /\ pc = "node" /\ pc' = "node" /\ at <= Len(Order) /\ at' = at + 1
      /\ Persist(cur', "running")
      /\ UNCHANGED <<version, cur, retried, result, todo, ended, ran, ranAt, stale, undone>>
  BY DEF ReuseNode, world
<1>2. WellFormed(cur') /\ cur'.reused = cur.reused
  BY <1>0, <1>1
<1>3. \A n \in Nodes : cur'.state[n] = "completed" => UpToDate(n)
  BY <1>0, <1>1 DEF RunningOK
<1>4. FilesOK' /\ RunningOK' /\ saved' = TRUE
  <2>1. saved' = TRUE
    BY <1>1 DEF Persist
  <2>2. QED
    BY <1>1, <1>2, <1>3, <2>1, SavedRunGoesOn
<1>5. Simple'
  BY <1>0, <1>1, <1>4 DEF Simple
<1>6. WellFormed(cur)'
  BY <1>0, <1>1
<1>7. Progress'
  <2>1. at \in 1 .. Len(Order)
    BY <1>1, CurrentFacts
  <2>2. at' \in 1 .. Len(Order) + 1 /\ 1 .. at - 1 \subseteq 1 .. at' - 1
    BY <1>1, <2>1, OrderFacts
  <2>3. QED
    BY <1>0, <1>1, <2>2 DEF Progress
<1>8. Compensating' /\ CompensatesDependentsFirst' /\ FailedIsCompensated' /\ ReuseIsMaximal'
  BY <1>0, <1>1, <1>4 DEF Compensating, CompensatesDependentsFirst, FailedIsCompensated,
                          ReuseIsMaximal, RunningOK
<1>9. QED
  BY <1>4, <1>5, <1>6, <1>7, <1>8 DEF WInv

LEMMA RecordNodeKeeps == WInv /\ RecordNode => WInv'
<1> SUFFICES ASSUME WInv, RecordNode PROVE WInv'
  OBVIOUS
<1>0. Simple /\ WellFormed(cur) /\ FilesOK /\ Progress /\ RunningOK /\ Compensating
      /\ CompensatesDependentsFirst /\ FailedIsCompensated
  BY DEF WInv
<1> DEFINE run == [cur EXCEPT !.outputs = Append(@, Current), !.state[Current] = result]
           fails == result = "failed" /\ Current \notin Continue
<1>1. /\ pc = "record" /\ cur' = run /\ result' = "completed"
      /\ Persist(run, IF result = "completed" THEN "running" ELSE "failed")
      /\ fails => pc' = "compensate" /\ todo' = CompletedReverse(run) /\ at' = at
      /\ ~fails => pc' = "node" /\ at' = at + 1 /\ todo' = todo
      /\ UNCHANGED <<version, retried, ended, ran, ranAt, stale, undone>>
  BY DEF RecordNode, world
<1>2. /\ at <= Len(Order) /\ Current \notin cur.reused
      /\ result = ran[Current] /\ ranAt[Current] = version[Current] /\ Current \notin stale
  BY <1>0, <1>1 DEF Progress, Current
<1>3. at \in 1 .. Len(Order) /\ Current \in Nodes /\ Current = Order[at]
  BY <1>2, CurrentFacts
<1>4. result \in {"completed", "failed"}
  BY <1>0, <1>1 DEF Progress
<1> HIDE DEF run
<1>5. /\ run \in Run /\ WellFormed(run) /\ run.reused = cur.reused
      /\ Range(run.outputs) = Range(cur.outputs) \cup {Current}
      /\ run.state[Current] = result
      /\ \A n \in Nodes : n # Current => run.state[n] = cur.state[n]
  BY <1>1, <1>2, <1>4, RecordedRun DEF run
<1>6. \A n \in Nodes : run.state[n] = "completed" => UpToDate(n)
  <2>1. SUFFICES ASSUME NEW n \in Nodes, run.state[n] = "completed" PROVE UpToDate(n)
    OBVIOUS
  <2>2. CASE n = Current
    BY <1>2, <1>5, <2>1, <2>2 DEF UpToDate
  <2>3. CASE n # Current
    BY <1>0, <1>1, <1>5, <2>1, <2>3 DEF RunningOK
  <2>4. QED
    BY <2>2, <2>3
<1>7. FilesOK' /\ RunningOK' /\ Last(runs').run = cur' /\ saved' = TRUE
  <2>1. saved' = TRUE
    BY <1>1 DEF Persist
  <2>2. Persist(cur', "running") \/ Persist(cur', "failed")
    BY <1>1, <1>4
  <2>3. QED
    BY <1>1, <1>5, <1>6, <2>1, <2>2, SavedRunGoesOn
<1>8. Simple'
  BY <1>0, <1>1, <1>7 DEF Simple
<1>9. WellFormed(cur)'
  BY <1>1, <1>5 DEF WellFormed, Ordered
<1>10. Progress'
  <2>1. CASE fails
    BY <1>0, <1>1, <2>1 DEF Progress
  <2>2. CASE ~fails
    <3>1. at' \in 1 .. Len(Order) + 1
      BY <1>1, <1>3, <2>2, OrderFacts
    <3>2. ASSUME NEW n \in Range(cur'.outputs)
          PROVE  n \in cur'.reused \/ \E i \in 1 .. at' - 1 : Order[i] = n
      <4>1. CASE n = Current
        BY <1>1, <1>3, <2>2, <4>1
      <4>2. CASE n \in Range(cur.outputs)
        <5>1. n \in cur.reused \/ \E i \in 1 .. at - 1 : Order[i] = n
          BY <1>0, <1>1, <4>2 DEF Progress
        <5>2. 1 .. at - 1 \subseteq 1 .. at' - 1
          BY <1>1, <1>3, <2>2
        <5>3. QED
          BY <1>1, <1>5, <5>1, <5>2
      <4>3. QED
        BY <1>1, <1>5, <4>1, <4>2
    <3>3. QED
      BY <1>1, <2>2, <3>1, <3>2 DEF Progress
  <2>3. QED
    BY <2>1, <2>2
<1>11. Compensating' /\ CompensatesDependentsFirst'
  <2>1. CASE fails
    <3>1. /\ todo' \in Seq(Nodes)
          /\ \A n \in Nodes : run.state[n] = "completed" => n \in Range(todo')
          /\ \A i, j \in DOMAIN todo' : i < j => todo'[i] \notin Deps[todo'[j]]
      BY <1>1, <1>5, <2>1, CompletedReverseOrdered
    <3>2. Compensable \subseteq Nodes
      BY NodesAssumption
    <3>3. QED
      BY <1>1, <1>7, <2>1, <3>1, <3>2 DEF Compensating, CompensatesDependentsFirst
  <2>2. CASE ~fails
    BY <1>0, <1>1, <2>2 DEF Compensating, CompensatesDependentsFirst
  <2>3. QED
    BY <2>1, <2>2
<1>12. FailedIsCompensated' /\ ReuseIsMaximal'
  BY <1>0, <1>1, <1>7 DEF FailedIsCompensated, ReuseIsMaximal, RunningOK
<1>13. QED
  BY <1>7, <1>8, <1>9, <1>10, <1>11, <1>12 DEF WInv

LEMMA CompensateNodeKeeps == WInv /\ CompensateNode => WInv'
<1> SUFFICES ASSUME WInv, CompensateNode PROVE WInv'
  OBVIOUS
<1>0. Simple /\ WellFormed(cur) /\ FilesOK /\ Progress /\ RunningOK /\ Compensating
      /\ CompensatesDependentsFirst /\ FailedIsCompensated
  BY DEF WInv
<1>1. /\ pc = "compensate" /\ todo # << >> /\ todo' = Tail(todo)
      /\ UNCHANGED <<version, runs, pc, cur, saved, at, retried, ended, ran, ranAt, stale>>
  BY DEF CompensateNode
<1>2. \/ /\ Head(todo) \in Compensable
         /\ \E ok \in BOOLEAN :
              /\ undone' = IF ok THEN undone \cup {Head(todo)} ELSE undone
              /\ result' = IF Verdict(ok) THEN "completed" ELSE "failed"
      \/ Head(todo) \notin Compensable /\ UNCHANGED <<undone, result>>
  BY DEF CompensateNode
<1>3. /\ todo \in Seq(Nodes) /\ Tail(todo) \in Seq(Nodes) /\ Len(todo) \in Nat
      /\ DOMAIN todo = 1 .. Len(todo) /\ DOMAIN Tail(todo) = 1 .. Len(todo) - 1
      /\ Head(todo) = todo[1] /\ Len(todo) >= 1
      /\ \A i \in 1 .. Len(todo) - 1 : Tail(todo)[i] = todo[i + 1]
  BY <1>0, <1>1 DEF Compensating
<1>4. \A n \in Range(todo) : n = Head(todo) \/ n \in Range(Tail(todo))
  <2>1. SUFFICES ASSUME NEW i \in 1 .. Len(todo), i # 1
                 PROVE  todo[i] \in Range(Tail(todo))
    BY <1>3 DEF Range
  <2>2. Len(todo) \in Nat => i - 1 \in 1 .. Len(todo) - 1 /\ (i - 1) + 1 = i
    BY <2>1
  <2>3. QED
    BY <1>3, <2>2 DEF Range
<1>5. Simple'
  <2>1. undone' \subseteq Compensable /\ result' \in {"none", "completed", "failed"}
    BY <1>0, <1>2 DEF Simple
  <2>2. QED
    BY <1>0, <1>1, <2>1 DEF Simple
<1>6. WellFormed(cur)'
  BY <1>0, <1>1
<1>7. FilesOK'
  BY <1>0, <1>1, FilesKept
<1>8. Progress'
  BY <1>0, <1>1 DEF Progress
<1>9. RunningOK'
  BY <1>0, <1>1 DEF RunningOK, Usable, Unsaved, Closed, UpToDate
<1>10. Compensating'
  <2>1. /\ saved /\ Last(runs).run = cur /\ result \in {"completed", "failed"}
        /\ result = "completed" => \A n \in Compensable :
             cur.state[n] = "completed" => n \in undone \cup Range(todo)
    BY <1>0, <1>1 DEF Compensating
  <2>2. result' \in {"completed", "failed"}
    BY <1>2, <2>1
  <2>3. ASSUME result' = "completed", NEW n \in Compensable, cur.state[n] = "completed"
        PROVE  n \in undone' \cup Range(Tail(todo))
    <3>1. result = "completed" /\ undone \subseteq undone'
      BY <1>2, <2>3 DEF Verdict
    <3>2. Head(todo) \in Compensable => Head(todo) \in undone'
      BY <1>2, <2>3 DEF Verdict
    <3>3. n \in undone \cup Range(todo)
      BY <2>1, <2>3, <3>1
    <3>4. QED
      BY <1>4, <2>3, <3>1, <3>2, <3>3
  <2>4. QED
    BY <1>1, <1>3, <2>1, <2>2, <2>3 DEF Compensating
<1>11. CompensatesDependentsFirst'
  <2>1. SUFFICES ASSUME NEW i \in 1 .. Len(todo) - 1, NEW j \in 1 .. Len(todo) - 1, i < j
                 PROVE  Tail(todo)[i] \notin Deps[Tail(todo)[j]]
    BY <1>1, <1>3 DEF CompensatesDependentsFirst
  <2>2. i + 1 \in DOMAIN todo /\ j + 1 \in DOMAIN todo /\ i + 1 < j + 1
    BY <1>3, <2>1
  <2>3. QED
    BY <1>0, <1>3, <2>2 DEF CompensatesDependentsFirst
<1>12. FailedIsCompensated' /\ ReuseIsMaximal'
  BY <1>0, <1>1 DEF FailedIsCompensated, ReuseIsMaximal, RunningOK
<1>13. QED
  BY <1>5, <1>6, <1>7, <1>8, <1>9, <1>10, <1>11, <1>12 DEF WInv

\* Between runs only the files and what the nodes did remain.
LEMMA LeaveKeeps ==
  ASSUME WInv, Leave, saved' \in BOOLEAN, ended' \in BOOLEAN,
         UNCHANGED <<version, world>>, FilesOK', FailedIsCompensated'
  PROVE  WInv'
<1>0. Simple
  BY DEF WInv
<1>1. Simple'
  BY <1>0 DEF Simple, Leave, world
<1>2. WellFormed(cur)'
  BY NewRunIsWellFormed DEF Leave
<1>3. Progress'
  BY OrderFacts DEF Progress, Leave
<1>4. RunningOK' /\ ReuseIsMaximal'
  BY DEF RunningOK, ReuseIsMaximal, Leave
<1>5. Compensating' /\ CompensatesDependentsFirst'
  BY DEF Compensating, CompensatesDependentsFirst, Leave
<1>6. QED
  BY <1>1, <1>2, <1>3, <1>4, <1>5 DEF WInv

\* The run's last file.
LEMMA LastFile ==
  ASSUME WInv, pc # "idle", NEW status \in RunStatuses, Persist(cur, status),
         UNCHANGED <<version, ran, ranAt, stale>>
  PROVE  FilesOK' /\ Last(runs').status = status /\ Last(runs').run = cur /\ saved' = TRUE
<1>1. cur \in Run /\ WellFormed(cur)
  BY DEF WInv, WellFormed
<1>2. \A n \in Nodes : cur.state[n] = "completed" => UpToDate(n)
  BY DEF WInv, RunningOK
<1>3. \A n \in cur.reused : cur.state[n] = "completed"
  BY <1>1 DEF WellFormed
<1>4. FilesOK'
  BY <1>1, <1>2, <1>3, PersistKeepsFiles
<1>5. Last(runs') = [run |-> cur, status |-> status, version |-> version] /\ saved' = TRUE
  BY <1>1, PersistedShape
<1>6. QED
  BY <1>4, <1>5

LEMMA CompleteKeeps == WInv /\ Complete => WInv'
<1> SUFFICES ASSUME WInv, Complete PROVE WInv'
  OBVIOUS
<1>1. /\ pc # "idle" /\ Persist(cur, "completed") /\ Leave /\ ended' = TRUE
      /\ UNCHANGED <<version, world>>
  BY DEF Complete
<1>2. FilesOK' /\ Last(runs').status = "completed" /\ saved' = TRUE
  BY <1>1, LastFile DEF RunStatuses, world
<1>3. FailedIsCompensated'
  BY <1>2 DEF FailedIsCompensated
<1>4. QED
  BY <1>1, <1>2, <1>3, LeaveKeeps

LEMMA FailKeeps == WInv /\ Fail => WInv'
<1> SUFFICES ASSUME WInv, Fail PROVE WInv'
  OBVIOUS
<1> DEFINE status == IF result = "completed" THEN "failed" ELSE "compensation_failed"
<1>1. /\ pc = "compensate" /\ todo = << >> /\ Persist(cur, status) /\ Leave /\ ended' = TRUE
      /\ UNCHANGED <<version, world>>
  BY DEF Fail
<1>2. status \in RunStatuses
  BY DEF RunStatuses
<1> HIDE DEF status
<1>3. FilesOK' /\ Last(runs').status = status /\ Last(runs').run = cur /\ saved' = TRUE
  BY <1>1, <1>2, LastFile DEF world
<1>4. ASSUME status = "failed", NEW n \in Compensable, cur.state[n] = "completed"
      PROVE  n \in undone
  <2>1. result = "completed"
    BY <1>4 DEF status
  <2>2. n \in undone \cup Range(todo)
    BY <1>1, <1>4, <2>1 DEF WInv, Compensating
  <2>3. Range(todo) = {}
    BY <1>1 DEF Range
  <2>4. QED
    BY <2>2, <2>3
<1>5. FailedIsCompensated'
  BY <1>1, <1>3, <1>4 DEF FailedIsCompensated, world
<1>6. QED
  BY <1>1, <1>3, <1>5, LeaveKeeps

LEMMA CrashKeeps == WInv /\ Crash => WInv'
<1> SUFFICES ASSUME WInv, Crash PROVE WInv'
  OBVIOUS
<1>1. /\ pc # "idle" /\ Leave /\ saved' = FALSE
      /\ UNCHANGED <<version, runs, ended, world>>
  BY DEF Crash
<1>2. FilesOK' /\ ended' \in BOOLEAN
  BY <1>1, FilesKept DEF WInv, Simple, world
<1>3. FailedIsCompensated'
  BY <1>1 DEF WInv, RunningOK, FailedIsCompensated
<1>4. QED
  BY <1>1, <1>2, <1>3, LeaveKeeps

\* An edit takes the edited node, and what depends on it, from every set of
\* nodes a resume could take over, and changes nothing for the others.
LEMMA EditKeeps == ASSUME WInv, NEW n \in Nodes, Edit(n) PROVE WInv'
<1>0. Simple /\ WellFormed(cur) /\ FilesOK /\ Progress /\ RunningOK /\ Compensating
      /\ CompensatesDependentsFirst /\ FailedIsCompensated
  BY DEF WInv
<1>1. /\ pc = "idle" /\ version' = [version EXCEPT ![n] = @ + 1]
      /\ UNCHANGED <<runs, pc, cur, saved, at, retried, result, todo, ended,
                     ran, ranAt, stale, undone>>
  BY DEF Edit, work, world
<1>2. /\ version' \in [Nodes -> Nat] /\ version'[n] = version[n] + 1 /\ version[n] \in Nat
      /\ \A m \in Nodes : m # n => version'[m] = version[m]
  BY <1>0, <1>1 DEF Simple
<1>3. Simple'
  BY <1>0, <1>1, <1>2 DEF Simple
<1>4. WellFormed(cur)'
  BY <1>0, <1>1
<1>5. Usable' = Usable /\ runs' = runs /\ Usable \subseteq DOMAIN runs
  BY <1>1 DEF Usable
<1>6. ASSUME NEW i \in DOMAIN runs, NEW S \in SUBSET Nodes
      PROVE  Closed(runs[i], S)' <=> Closed(runs[i], S) /\ n \notin S
  <2>1. runs[i].version[n] \in Nat /\ runs[i].version[n] <= version[n]
    <3>1. runs[i] \in RunFile
      BY <1>0 DEF FilesOK
    <3>2. QED
      BY <1>0, <3>1 DEF FilesOK, RunFile
  <2>2. runs[i].version[n] # version'[n]
    BY <1>2, <2>1
  <2>3. QED
    BY <1>1, <1>2, <2>2 DEF Closed
<1>7. FilesOK'
  <2>1. runs' \in Seq(RunFile) /\ Len(runs') <= MaxRuns
    BY <1>0, <1>5 DEF FilesOK
  <2>2. ASSUME NEW i \in DOMAIN runs
        PROVE  /\ WellFormed(runs[i].run)
               /\ \A m \in Nodes : runs[i].version[m] <= version'[m]
    <3>1. runs[i] \in RunFile
      BY <1>0 DEF FilesOK
    <3>2. runs[i].version \in [Nodes -> Nat]
      BY <3>1 DEF RunFile
    <3>3. ASSUME NEW m \in Nodes PROVE runs[i].version[m] <= version'[m]
      <4>1. runs[i].version[m] <= version[m] /\ runs[i].version[m] \in Nat
        BY <1>0, <3>2 DEF FilesOK
      <4>2. QED
        BY <1>2, <4>1
    <3>4. QED
      BY <1>0, <3>3 DEF FilesOK
  <2>3. ASSUME NEW i \in Usable, NEW j \in Usable, NEW S \in SUBSET Nodes, i <= j,
               Closed(runs[i], S)'
        PROVE  Closed(runs[j], S)'
    <3>1. Closed(runs[i], S) /\ n \notin S
      BY <1>5, <1>6, <2>3
    <3>2. Closed(runs[j], S)
      BY <1>0, <2>3, <3>1 DEF FilesOK
    <3>3. QED
      BY <1>5, <1>6, <3>1, <3>2
  <2>4. ASSUME NEW i \in Usable, NEW S \in SUBSET Nodes, Closed(runs[i], S)', NEW m \in S
        PROVE  UpToDate(m)'
    <3>1. Closed(runs[i], S) /\ n \notin S
      BY <1>5, <1>6, <2>4
    <3>2. UpToDate(m) /\ m # n
      BY <1>0, <2>4, <3>1 DEF FilesOK
    <3>3. QED
      BY <1>1, <1>2, <2>4, <3>2 DEF UpToDate
  <2>5. QED
    BY <1>5, <2>1, <2>2, <2>3, <2>4 DEF FilesOK
<1>8. Progress'
  BY <1>0, <1>1 DEF Progress
<1>9. RunningOK' /\ ReuseIsMaximal'
  BY <1>1 DEF RunningOK, ReuseIsMaximal
<1>10. Compensating' /\ CompensatesDependentsFirst' /\ FailedIsCompensated'
  BY <1>0, <1>1 DEF Compensating, CompensatesDependentsFirst, FailedIsCompensated
<1>11. QED
  BY <1>3, <1>4, <1>7, <1>8, <1>9, <1>10 DEF WInv

\* A new run takes over all that can be taken over, from the newest usable file.
LEMMA StartKeeps == WInv /\ Start => WInv'
<1> SUFFICES ASSUME WInv, Start PROVE WInv'
  OBVIOUS
<1>0. Simple /\ WellFormed(cur) /\ FilesOK /\ Progress /\ RunningOK /\ Compensating
      /\ CompensatesDependentsFirst /\ FailedIsCompensated
  BY DEF WInv
<1> DEFINE newest == runs[Max(Usable)]
           taken == IF Usable = {} THEN << >> ELSE Reusable(newest)
<1>1. /\ pc = "idle" /\ Len(runs) < MaxRuns /\ pc' = "node" /\ at' = 1
      /\ saved' = FALSE /\ ended' = FALSE
      /\ cur' = [outputs |-> taken, reused |-> Range(taken),
                 state |-> [n \in Nodes |->
                              IF n \in Range(taken) THEN "completed" ELSE "none"]]
      /\ UNCHANGED <<version, runs, retried, result, todo, ran, ranAt, stale, undone>>
  BY DEF Start, world
<1> DEFINE Most(r) == \A S \in SUBSET Nodes : Closed(newest, S) => S \subseteq Range(r)
<1>2. ASSUME Usable # {}
      PROVE  /\ Max(Usable) \in Usable /\ \A i \in Usable : i <= Max(Usable)
             /\ newest \in RunFile /\ WellFormed(newest.run)
             /\ taken \in Seq(Nodes) /\ IsInjective(taken) /\ Ordered(taken)
             /\ Closed(newest, Range(taken)) /\ Most(taken)
  <2>1. Max(Usable) \in Usable /\ \A i \in Usable : i <= Max(Usable)
    BY <1>0, <1>2, NewestUsable DEF FilesOK
  <2>2. newest \in RunFile /\ WellFormed(newest.run)
    BY <1>0, <2>1 DEF FilesOK, Usable
  <2> HIDE DEF newest
  <2>3. taken = Reusable(newest)
    BY <1>2
  <2>4. /\ taken \in Seq(Nodes) /\ IsInjective(taken) /\ Ordered(taken)
        /\ Closed(newest, Range(taken))
    BY <2>2, <2>3, ReusableIsClosed
  <2>5. Most(taken)
    BY <2>2, <2>3, ReusableIsMaximal
  <2>6. QED
    BY <2>1, <2>2, <2>4, <2>5
<1> HIDE DEF taken, newest, Most
<1>3. Usable = {} => taken = << >>
  BY DEF taken
<1>4. taken \in Seq(Nodes) /\ IsInjective(taken) /\ Ordered(taken) /\ Range(taken) \subseteq Nodes
  <2>1. CASE Usable = {}
    <3>1. taken = << >> /\ DOMAIN taken = {}
      BY <1>3, <2>1
    <3>2. QED
      BY <3>1 DEF IsInjective, Ordered, Range
  <2>2. CASE Usable # {}
    <3>1. taken \in Seq(Nodes) /\ IsInjective(taken) /\ Ordered(taken)
      BY <1>2, <2>2
    <3>2. Range(taken) \subseteq Nodes
      BY <3>1 DEF Range
    <3>3. QED
      BY <3>1, <3>2
  <2>3. QED
    BY <2>1, <2>2
<1>5. ASSUME NEW n \in Range(taken) PROVE UpToDate(n) /\ Deps[n] \subseteq Range(taken)
  <2>1. CASE Usable = {}
    BY <1>3, <2>1 DEF Range
  <2>2. CASE Usable # {}
    <3>1. Max(Usable) \in Usable /\ Closed(newest, Range(taken))
      BY <1>2, <2>2
    <3>2. UpToDate(n)
      BY <1>0, <1>4, <3>1 DEF FilesOK, newest
    <3>3. QED
      BY <3>1, <3>2 DEF Closed
  <2>3. QED
    BY <2>1, <2>2
<1>6. /\ cur'.outputs = taken /\ cur'.reused = Range(taken)
      /\ cur'.state = [n \in Nodes |-> IF n \in Range(taken) THEN "completed" ELSE "none"]
      /\ cur' \in Run
  BY <1>1, <1>4 DEF Run, Outcomes
<1>7. WellFormed(cur')
  <2>1. \A n \in Nodes : cur'.state[n] = "none" <=> n \notin Range(taken)
    BY <1>6
  <2>2. \A n \in cur'.reused : cur'.state[n] = "completed" /\ Deps[n] \subseteq cur'.reused
    BY <1>4, <1>5, <1>6
  <2>3. QED
    BY <1>4, <1>6, <2>1, <2>2 DEF WellFormed
<1>8. WellFormed(cur)'
  BY <1>7 DEF WellFormed, Ordered
<1>9. Simple'
  BY <1>0, <1>1 DEF Simple
<1>10. FilesOK'
  BY <1>0, <1>1, FilesKept
<1>11. Progress'
  BY <1>1, <1>6, OrderFacts DEF Progress
<1>12. ASSUME NEW i \in Usable, NEW S \in SUBSET Nodes, Closed(runs[i], S)
       PROVE  S \subseteq Range(taken)
  <2>1. Max(Usable) \in Usable /\ i <= Max(Usable) /\ Most(taken)
    BY <1>2
  <2>2. Closed(newest, S)
    BY <1>0, <1>12, <2>1 DEF FilesOK, newest
  <2>3. QED
    BY <2>1, <2>2 DEF Most
<1>13. RunningOK'
  <2>1. ASSUME NEW n \in Nodes, cur'.state[n] = "completed" PROVE UpToDate(n)'
    <3>1. n \in Range(taken)
      BY <1>6, <2>1
    <3>2. QED
      BY <1>1, <1>5, <3>1 DEF UpToDate
  <2>2. \A i \in Usable : \A S \in SUBSET Nodes :
          Closed(runs[i], S)' => S \subseteq cur'.reused
    BY <1>1, <1>6, <1>12 DEF Closed
  <2>3. Usable' = Usable
    BY <1>1 DEF Usable
  <2>4. QED
    BY <1>1, <2>1, <2>2, <2>3 DEF RunningOK
<1>14. Compensating' /\ CompensatesDependentsFirst' /\ FailedIsCompensated'
  BY <1>0, <1>1 DEF Compensating, CompensatesDependentsFirst, FailedIsCompensated
<1>15. ReuseIsMaximal'
  <2>1. SUFFICES ASSUME Usable # {}, NEW n \in Nodes,
                        newest.run.state[n] = "completed", newest.version[n] = version[n],
                        Deps[n] \subseteq Range(taken)
                 PROVE  n \in Range(taken)
    <3>1. Usable' = Usable /\ runs'[Max(Usable)'] = newest
      BY <1>1 DEF Usable, newest
    <3>2. QED
      BY <1>1, <1>6, <3>1 DEF ReuseIsMaximal
  <2> DEFINE S == Range(taken) \cup {n}
  <2>2. S \in SUBSET Nodes /\ Closed(newest, S)
    BY <1>2, <1>4, <2>1 DEF Closed
  <2>3. Most(taken)
    BY <1>2, <2>1
  <2> HIDE DEF S
  <2>4. S \subseteq Range(taken)
    BY <2>2, <2>3 DEF Most
  <2>5. QED
    BY <2>4 DEF S
<1>16. QED
  BY <1>8, <1>9, <1>10, <1>11, <1>13, <1>14, <1>15 DEF WInv

LEMMA StutterKeeps == WInv /\ UNCHANGED vars => WInv'
<1> SUFFICES ASSUME WInv, UNCHANGED vars PROVE WInv'
  OBVIOUS
<1>0. Simple /\ WellFormed(cur) /\ FilesOK /\ Progress /\ RunningOK /\ Compensating
      /\ CompensatesDependentsFirst /\ FailedIsCompensated /\ ReuseIsMaximal
  BY DEF WInv
<1>1. UNCHANGED <<version, runs, pc, cur, saved, at, retried, result, todo, ended,
                  ran, ranAt, stale, undone>>
  BY DEF vars
<1>2. Simple' /\ WellFormed(cur)' /\ FilesOK' /\ Progress'
  BY <1>0, <1>1, FilesKept DEF Simple, Progress
<1>3. RunningOK'
  BY <1>0, <1>1 DEF RunningOK, Unsaved, Usable, Closed, UpToDate
<1>4. Compensating' /\ CompensatesDependentsFirst' /\ FailedIsCompensated'
  BY <1>0, <1>1 DEF Compensating, CompensatesDependentsFirst, FailedIsCompensated
<1>5. ReuseIsMaximal'
  BY <1>0, <1>1 DEF ReuseIsMaximal, Usable
<1>6. QED
  BY <1>2, <1>3, <1>4, <1>5 DEF WInv

LEMMA NextKeeps == WInv /\ [Next]_vars => WInv'
<1> SUFFICES ASSUME WInv, [Next]_vars PROVE WInv'
  OBVIOUS
<1>1. ASSUME NEW n \in Nodes, Edit(n) PROVE WInv'
  BY <1>1, EditKeeps
<1>2. CASE Start
  BY <1>2, StartKeeps
<1>3. CASE ReuseNode
  BY <1>3, ReuseNodeKeeps
<1>4. CASE SkipNode
  BY <1>4, SkipNodeKeeps
<1>5. CASE StartNode
  BY <1>5, StartNodeKeeps
<1>6. CASE Attempt
  BY <1>6, AttemptKeeps
<1>7. CASE Retry
  BY <1>7, RetryKeeps
<1>8. CASE RecordNode
  BY <1>8, RecordNodeKeeps
<1>9. CASE CompensateNode
  BY <1>9, CompensateNodeKeeps
<1>10. CASE Complete
  BY <1>10, CompleteKeeps
<1>11. CASE Fail
  BY <1>11, FailKeeps
<1>12. CASE Crash
  BY <1>12, CrashKeeps
<1>13. CASE UNCHANGED vars
  BY <1>13, StutterKeeps
<1>14. QED
  BY <1>1, <1>2, <1>3, <1>4, <1>5, <1>6, <1>7, <1>8, <1>9, <1>10, <1>11, <1>12, <1>13
     DEF Next, Step

\* Every reachable state of the workflow engine satisfies the inductive
\* invariant: the files are ordered by what can be taken over from them, and
\* the running run has taken over all that can be (engine.py run, _persist,
\* _resume_outputs).
THEOREM WorkflowInvariant == Spec => []WInv
<1>1. QED
  BY InitInvariant, NextKeeps, PTL DEF Spec

\* The engine's state keeps its types: outputs never repeat, and a node is
\* never tried again when its retries are used up (engine.py run).
THEOREM WorkflowTypes == Spec => []TypeOK
<1>1. WInv => TypeOK
  <2> SUFFICES ASSUME WInv PROVE TypeOK
    OBVIOUS
  <2>1. Simple /\ WellFormed(cur) /\ FilesOK /\ Progress /\ Compensating
    BY DEF WInv
  <2>2. QED
    BY <2>1 DEF TypeOK, Simple, WellFormed, FilesOK, Progress, Compensating
<1>2. QED
  BY <1>1, WorkflowInvariant, PTL

\* Whatever a run takes over from a run file is current, whichever file it is
\* and whatever happened since: crashes, edits, failures, resumes
\* (engine.py _latest_run, _resume_outputs).
THEOREM WorkflowReusesWhatIsCurrent == Spec => []ReusedIsCurrent
<1>1. WInv => ReusedIsCurrent
  <2> SUFFICES ASSUME WInv, NEW n \in cur.reused PROVE UpToDate(n)
    BY DEF ReusedIsCurrent, UpToDate
  <2>1. WellFormed(cur) /\ RunningOK /\ (pc = "idle" => cur = NewRun)
    BY DEF WInv, Simple
  <2>2. pc # "idle"
    BY <2>1 DEF NewRun
  <2>3. n \in Nodes /\ cur.state[n] = "completed"
    BY <2>1 DEF WellFormed, Run
  <2>4. QED
    BY <2>1, <2>2, <2>3 DEF RunningOK
<1>2. QED
  BY <1>1, WorkflowInvariant, PTL

\* A started run takes over every node that could be taken over with what it
\* depends on: the order of the saved outputs never hides one
\* (engine.py _resume_outputs).
THEOREM WorkflowReuseIsMaximal == Spec => []ReuseIsMaximal
<1>1. WInv => ReuseIsMaximal
  BY DEF WInv
<1>2. QED
  BY <1>1, WorkflowInvariant, PTL

\* No node is compensated before one that depends on it (engine.py _compensate).
THEOREM WorkflowCompensatesDependentsFirst == Spec => []CompensatesDependentsFirst
<1>1. WInv => CompensatesDependentsFirst
  BY DEF WInv
<1>2. QED
  BY <1>1, WorkflowInvariant, PTL

\* A run recorded as failed has undone every completed node that can be undone,
\* reused ones too (engine.py run, _compensate).
THEOREM WorkflowFailedIsCompensated == Spec => []FailedIsCompensated
<1>1. WInv => FailedIsCompensated
  BY DEF WInv
<1>2. QED
  BY <1>1, WorkflowInvariant, PTL
=============================================================================
