-------------------------- MODULE PosetAccessProofs --------------------------
(***************************************************************************)
(* Proofs about access to posets that depend on each other.  A call is a   *)
(* sequence of steps, each on one poset, so the argument follows one       *)
(* poset at a time: what the steps that are left of the call make of what  *)
(* its thread has of that poset.  The invariant says that they bring it to *)
(* what the thread asked for and has not released.  That a call begins so  *)
(* is shown call by call; that a step leaves it so is shown step by step,  *)
(* and other threads come in only through the locks.                       *)
(***************************************************************************)
EXTENDS PosetAccess, Foundations

(***************************************************************************)
(* What a thread has of one poset, and what the steps of a call on it make *)
(* of it.  Nobody but a writer has edits.                                  *)
(***************************************************************************)
Ops == {"read", "write", "release", "regain", "request_edit", "release_edit", "insert", "terminate"}
\* The steps a call is a sequence of.
Steps == Ops \X Posets

\* The access of a thread to a poset, and the poset's edits if the thread writes it.
LocalState ==
  {a \in [mode : {"none", "read", "write"}, depth : Nat, switch : Nat, edits : Nat] :
     a.mode # "write" => a.edits = 0}

\* A step leaves the upgrade and the edits.
Keeps(a, b) == b.switch = a.switch /\ b.edits = a.edits

\* One level less; an upgrade that ends becomes read access (Release and Regain
\* together).
Releases(a, b) ==
  /\ b.depth = a.depth - 1 /\ b.edits = a.edits
  /\ IF b.depth = 0 THEN b.mode = "none" /\ b.switch = a.switch
     ELSE IF a.mode = "write" /\ b.depth = a.switch THEN b.mode = "read" /\ b.switch = 0
     ELSE b.mode = a.mode /\ b.switch = a.switch

\* What each step makes of the access to its poset, an upgrade and its wait in one.
Moves(op, a, b) ==
  /\ op = "read" => /\ b.mode = IF a.mode = "none" THEN "read" ELSE a.mode
                    /\ b.depth = a.depth + 1 /\ Keeps(a, b)
  /\ op = "write" => /\ b.mode = "write" /\ b.depth = a.depth + 1 /\ b.edits = a.edits
                     /\ b.switch = IF a.mode = "read" THEN a.depth ELSE a.switch
  /\ op = "release" => Releases(a, b)
  /\ op = "regain" => /\ a.mode = "none" /\ a.depth > 0 /\ b.mode = "read"
                      /\ b.depth = a.depth /\ b.switch = 0 /\ b.edits = a.edits
  /\ op = "request_edit" => /\ a.mode = "write" /\ b.mode = "write" /\ b.depth = a.depth
                            /\ b.switch = a.switch /\ b.edits = a.edits + 1
  /\ op = "release_edit" => /\ a.mode = "write" /\ b.mode = "write" /\ b.depth = a.depth
                            /\ b.switch = a.switch /\ b.edits = a.edits - 1
  /\ op = "insert" => b = a
  /\ op = "terminate" => a.mode = "write" /\ b.mode = "none" /\ b.depth = 0 /\ b.switch = 0

\* A step concerns one poset.
Goes(step, x, a, b) == IF step[2] = x THEN Moves(step[1], a, b) ELSE b = a

\* The steps lead from a to b at poset x.
Leads(steps, x, a, b) ==
  \E st \in [0..Len(steps) -> LocalState] :
    /\ st[0] = a /\ st[Len(steps)] = b
    /\ \A i \in 1..Len(steps) : Goes(steps[i], x, st[i - 1], st[i])

\* No steps, no change.
LEMMA LeadsNowhere ==
  ASSUME NEW x, NEW a, NEW b
  PROVE  Leads(<< >>, x, a, b) <=> a \in LocalState /\ b = a
<1>1. ASSUME Leads(<< >>, x, a, b) PROVE a \in LocalState /\ b = a
  <2>1. PICK st \in [0..Len(<< >>) -> LocalState] : st[0] = a /\ st[Len(<< >>)] = b
    BY <1>1 DEF Leads
  <2>2. Len(<< >>) = 0 /\ 0 \in 0..0
    OBVIOUS
  <2> QED BY <2>1, <2>2
<1>2. ASSUME a \in LocalState PROVE Leads(<< >>, x, a, a)
  <2>1. PICK st : st = [i \in 0..0 |-> a]
    OBVIOUS
  <2>2. st \in [0..0 -> LocalState] /\ st[0] = a /\ Len(<< >>) = 0
    BY <1>2, <2>1
  <2> QED BY <2>2 DEF Leads
<1> QED BY <1>1, <1>2

\* One step.
LEMMA LeadsOne ==
  ASSUME NEW s \in Seq(Steps), Len(s) = 1, NEW x, NEW a \in LocalState, NEW b \in LocalState,
         Goes(s[1], x, a, b)
  PROVE  Leads(s, x, a, b)
<1>1. PICK st : st = [i \in 0..1 |-> IF i = 0 THEN a ELSE b]
  OBVIOUS
<1>2. st \in [0..1 -> LocalState] /\ st[0] = a /\ st[1] = b
  BY <1>1
<1>3. \A i \in 1..1 : i = 1 /\ i - 1 = 0
  OBVIOUS
<1> QED BY <1>2, <1>3 DEF Leads

\* One sequence of steps after another.
LEMMA LeadsOn ==
  ASSUME NEW s \in Seq(Steps), NEW t \in Seq(Steps), NEW x, NEW a, NEW b, NEW c,
         Leads(s, x, a, b), Leads(t, x, b, c)
  PROVE  Leads(s \o t, x, a, c)
<1>1. PICK m, n, u : m = Len(s) /\ n = Len(t) /\ u = s \o t
  OBVIOUS
<1>2. PICK f \in [0..m -> LocalState] :
        /\ f[0] = a /\ f[m] = b /\ \A i \in 1..m : Goes(s[i], x, f[i - 1], f[i])
  BY <1>1 DEF Leads
<1>3. PICK g \in [0..n -> LocalState] :
        /\ g[0] = b /\ g[n] = c /\ \A i \in 1..n : Goes(t[i], x, g[i - 1], g[i])
  BY <1>1 DEF Leads
<1>4. /\ m \in Nat /\ n \in Nat /\ Len(u) = m + n
      /\ \A i \in 1..m + n : u[i] = IF i <= m THEN s[i] ELSE t[i - m]
  BY <1>1, ConcatProperties
<1>5. PICK h : h = [i \in 0..m + n |-> IF i <= m THEN f[i] ELSE g[i - m]]
  OBVIOUS
<1>6. h \in [0..m + n -> LocalState]
  <2>1. \A i \in 0..m + n : i <= m => i \in 0..m
    BY <1>4
  <2>2. \A i \in 0..m + n : ~(i <= m) => i - m \in 0..n
    BY <1>4
  <2> QED BY <1>5, <2>1, <2>2
<1>7. h[0] = a /\ h[m + n] = c
  <2>1. 0 \in 0..m + n /\ m + n \in 0..m + n /\ 0 <= m /\ (m + n <= m <=> n = 0) /\ (m + n) - m = n
    BY <1>4
  <2>2. n = 0 => m + n = m
    BY <1>4
  <2> QED BY <1>2, <1>3, <1>5, <2>1, <2>2
<1>8. ASSUME NEW i \in 1..m + n PROVE Goes(u[i], x, h[i - 1], h[i])
  <2>1. i \in 0..m + n /\ i - 1 \in 0..m + n
    BY <1>4
  <2>2. CASE i <= m
    <3>1. i \in 1..m /\ i - 1 <= m
      BY <1>4, <2>2
    <3>2. u[i] = s[i] /\ h[i] = f[i] /\ h[i - 1] = f[i - 1]
      BY <1>4, <1>5, <2>1, <2>2, <3>1
    <3> QED BY <1>2, <3>1, <3>2
  <2>3. CASE ~(i <= m)
    <3>1. i - m \in 1..n /\ (i - 1) - m = (i - m) - 1
      BY <1>4, <2>3
    <3>2. u[i] = t[i - m] /\ h[i] = g[i - m]
      BY <1>4, <1>5, <2>1, <2>3
    <3>3. h[i - 1] = g[(i - m) - 1]
      <4>1. CASE i - 1 <= m
        <5>1. i - 1 = m /\ (i - m) - 1 = 0
          BY <1>4, <2>3, <4>1
        <5>2. h[i - 1] = f[m]
          BY <1>5, <2>1, <4>1, <5>1
        <5> QED BY <1>2, <1>3, <5>1, <5>2
      <4>2. CASE ~(i - 1 <= m)
        <5>1. h[i - 1] = g[(i - 1) - m]
          BY <1>5, <2>1, <4>2
        <5> QED BY <3>1, <5>1
      <4> QED BY <4>1, <4>2
    <3> QED BY <1>3, <3>1, <3>2, <3>3
  <2> QED BY <2>2, <2>3
<1>9. \E st \in [0..Len(u) -> LocalState] :
        /\ st[0] = a /\ st[Len(u)] = c
        /\ \A i \in 1..Len(u) : Goes(u[i], x, st[i - 1], st[i])
  BY <1>4, <1>6, <1>7, <1>8
<1> QED BY <1>1, <1>9 DEF Leads

\* The first step of a sequence, and the rest.
LEMMA LeadsFirst ==
  ASSUME NEW s \in Seq(Steps), s # << >>, NEW x, NEW a, NEW c, Leads(s, x, a, c)
  PROVE  /\ a \in LocalState
         /\ \E b \in LocalState : Goes(Head(s), x, a, b) /\ Leads(Tail(s), x, b, c)
<1>1. PICK m, t : m = Len(s) /\ t = Tail(s)
  OBVIOUS
<1>2. PICK f \in [0..m -> LocalState] :
        /\ f[0] = a /\ f[m] = c /\ \A i \in 1..m : Goes(s[i], x, f[i - 1], f[i])
  BY <1>1 DEF Leads
<1>3. /\ m \in Nat \ {0} /\ Len(t) = m - 1 /\ Head(s) = s[1]
      /\ \A i \in 1..m - 1 : t[i] = s[i + 1]
  BY <1>1
<1>4. PICK h : h = [i \in 0..m - 1 |-> f[i + 1]]
  OBVIOUS
<1>5. h \in [0..m - 1 -> LocalState] /\ h[0] = f[1] /\ h[m - 1] = c
  <2>1. \A i \in 0..m - 1 : i + 1 \in 0..m
    BY <1>3
  <2>2. 0 \in 0..m - 1 /\ m - 1 \in 0..m - 1 /\ (m - 1) + 1 = m
    BY <1>3
  <2> QED BY <1>2, <1>4, <2>1, <2>2
<1>6. ASSUME NEW i \in 1..m - 1 PROVE Goes(t[i], x, h[i - 1], h[i])
  <2>1. i \in 0..m - 1 /\ i - 1 \in 0..m - 1 /\ (i - 1) + 1 = i /\ i + 1 \in 1..m /\ (i + 1) - 1 = i
    BY <1>3
  <2>2. h[i - 1] = f[i] /\ h[i] = f[i + 1] /\ t[i] = s[i + 1]
    BY <1>3, <1>4, <2>1
  <2>3. Goes(s[i + 1], x, f[i], f[i + 1])
    BY <1>2, <2>1
  <2> QED BY <2>2, <2>3
<1>7. Leads(t, x, f[1], c)
  <2>1. \E st \in [0..Len(t) -> LocalState] :
          /\ st[0] = f[1] /\ st[Len(t)] = c
          /\ \A i \in 1..Len(t) : Goes(t[i], x, st[i - 1], st[i])
    BY <1>3, <1>5, <1>6
  <2> QED BY <2>1 DEF Leads
<1>8. a \in LocalState /\ f[1] \in LocalState /\ Goes(Head(s), x, a, f[1])
  <2>1. 1 \in 1..m /\ 1 - 1 = 0 /\ 0 \in 0..m /\ 1 \in 0..m
    BY <1>3
  <2> QED BY <1>2, <1>3, <2>1
<1> QED BY <1>1, <1>7, <1>8

\* What holds of a poset if it holds of all it needs holds of every poset.
LEMMA GroundedInduction ==
  ASSUME NEW V, NEW U, Grounded(V, U), NEW G,
         \A x \in V : U[x] \cap V \subseteq G => x \in G
  PROVE  V \subseteq G
<1> SUFFICES ASSUME V \ G # {} PROVE FALSE
  OBVIOUS
<1>1. PICK x \in V \ G : U[x] \cap (V \ G) = {}
  BY DEF Grounded
<1> QED BY <1>1

\* The posets and the end of the chains.
Nodes == Posets \cup {NoPoset}
\* Needs, as a function.
Needed == [x \in Nodes |-> IF x = NoPoset THEN {} ELSE Needs(x)]

\* PosetsAssumption, as the inductions below use it.
LEMMA ConstantsAre ==
  /\ IsFiniteSet(Posets) /\ NoPoset \notin Posets /\ IsFiniteSet(Nodes)
  /\ Namespace \in Posets /\ Primitives \in Nodes
  /\ SchemaOf \in [Posets -> Nodes]
  /\ Needed \in [Nodes -> SUBSET Nodes] /\ Grounded(Nodes, Needed)
  /\ \A x \in Posets : Namespace \notin Needs(x) /\ SchemaOf[x] \in Needs(x) /\ SchemaOf[x] # Namespace
  /\ Primitives # Namespace /\ Primitives \in Needs(Namespace)
<1>1. /\ IsFiniteSet(Posets) /\ NoPoset \notin Posets
      /\ Namespace \in Posets /\ Primitives \in Nodes /\ SchemaOf \in [Posets -> Nodes]
  BY PosetsAssumption DEF Nodes
<1>2. IsFiniteSet(Nodes)
  BY <1>1, FS_AddElement DEF Nodes
<1>3. Needed \in [Nodes -> SUBSET Nodes]
  BY <1>1 DEF Needed, Needs, Nodes
<1>4. Grounded(Nodes, Needed)
  <2> SUFFICES ASSUME NEW M \in (SUBSET Nodes) \ {{}} PROVE \E x \in M : Needed[x] \cap M = {}
    BY DEF Grounded
  <2>1. CASE NoPoset \in M
    <3>1. Needed[NoPoset] = {}
      BY DEF Needed, Nodes
    <3> QED BY <2>1, <3>1
  <2>2. CASE NoPoset \notin M
    <3>1. M \in (SUBSET Posets) \ {{}}
      BY <2>2 DEF Nodes
    <3>2. PICK x \in M : Needs(x) \cap M = {}
      BY <3>1, PosetsAssumption
    <3>3. Needed[x] = Needs(x)
      BY <2>2 DEF Needed
    <3> QED BY <3>2, <3>3
  <2> QED BY <2>1, <2>2
<1>5. \A x \in Posets : Namespace \notin Needs(x) /\ SchemaOf[x] \in Needs(x)
  BY PosetsAssumption DEF Needs
<1>6. Primitives \in Needs(Namespace)
  BY DEF Needs
<1> QED BY <1>1, <1>2, <1>3, <1>4, <1>5, <1>6

\* A call of one step.
LEMMA OneStep ==
  ASSUME NEW op \in Ops, NEW x \in Posets
  PROVE  /\ <<op, x>> \in Steps /\ <<<<op, x>>>> \in Seq(Steps) /\ Len(<<<<op, x>>>>) = 1
         /\ <<<<op, x>>>>[1] = <<op, x>> /\ <<op, x>>[1] = op /\ <<op, x>>[2] = x
BY DEF Steps

\* The recursion that requests read access defines a sequence of steps for every poset.
LEMMA get_read_accessIs ==
  /\ get_read_access \in [Nodes -> Seq(Steps)]
  /\ get_read_access[NoPoset] = << >>
  /\ \A x \in Posets : get_read_access[x] =
       <<<<"read", x>>>> \o get_read_access[SchemaOf[x]]
       \o (IF x = Namespace THEN get_read_access[Primitives] ELSE << >>)
<1> DEFINE R == Seq(Steps)
           rhs(f, x) == IF x = NoPoset THEN << >>
                        ELSE <<<<"read", x>>>> \o f[SchemaOf[x]]
                             \o IF x = Namespace THEN f[Primitives] ELSE << >>
           step == [x \in Nodes |-> [f \in [Nodes -> R] |-> rhs(f, x)]]
           Is(f) == f = [x \in Nodes |-> rhs(f, x)]
<1>1. << >> \in R
  OBVIOUS
<1>2. ASSUME NEW x \in Nodes, NEW f, \A y \in Needed[x] : f[y] \in R
      PROVE  rhs(f, x) \in R
  <2>1. CASE x = NoPoset
    BY <1>1, <2>1
  <2>2. CASE x # NoPoset
    <3>1. x \in Posets /\ Needed[x] = Needs(x)
      BY <2>2 DEF Nodes, Needed
    <3>2. PICK s : s = <<<<"read", x>>>>
      OBVIOUS
    <3>3. s \in R /\ f[SchemaOf[x]] \in R
      BY <1>2, <3>1, <3>2, ConstantsAre, OneStep DEF Ops
    <3>4. PICK u : u = IF x = Namespace THEN f[Primitives] ELSE << >>
      OBVIOUS
    <3>5. u \in R
      BY <1>1, <1>2, <3>1, <3>4, ConstantsAre
    <3>6. (s \o f[SchemaOf[x]]) \o u \in R
      BY <3>3, <3>5, ConcatProperties
    <3>7. rhs(f, x) = (s \o f[SchemaOf[x]]) \o u
      BY <2>2, <3>2, <3>4
    <3> QED BY <3>6, <3>7
  <2> QED BY <2>1, <2>2
<1>3. StepOn(Nodes, Needed, R, step)
  <2>1. step \in [Nodes -> [[Nodes -> R] -> R]]
    <3>1. ASSUME NEW x \in Nodes, NEW f \in [Nodes -> R] PROVE rhs(f, x) \in R
      <4>1. \A y \in Needed[x] : f[y] \in R
        BY ConstantsAre
      <4> HIDE DEF rhs, R
      <4> QED BY <1>2, <4>1
    <3> HIDE DEF rhs, R
    <3> QED BY <3>1
  <2>2. ASSUME NEW x \in Nodes, NEW f \in [Nodes -> R], NEW g \in [Nodes -> R],
               \A y \in Needed[x] : f[y] = g[y]
        PROVE  step[x][f] = step[x][g]
    <3>1. step[x][f] = rhs(f, x) /\ step[x][g] = rhs(g, x)
      <4> HIDE DEF rhs, R
      <4> QED OBVIOUS
    <3>2. CASE x = NoPoset
      BY <3>1, <3>2
    <3>3. CASE x # NoPoset
      <4>1. x \in Posets /\ Needed[x] = Needs(x)
        BY <3>3 DEF Nodes, Needed
      <4>2. f[SchemaOf[x]] = g[SchemaOf[x]] /\ (x = Namespace => f[Primitives] = g[Primitives])
        BY <2>2, <4>1, ConstantsAre
      <4>3. rhs(f, x) = rhs(g, x)
        BY <3>3, <4>2
      <4> HIDE DEF step, rhs
      <4> QED BY <3>1, <4>3
    <3> HIDE DEF step, rhs
    <3> QED BY <3>2, <3>3
  <2> HIDE DEF step, rhs, R
  <2> QED BY <2>1, <2>2 DEF StepOn
<1>4. PICK f \in [Nodes -> R] : \A x \in Nodes : f[x] = step[x][f]
  <2> HIDE DEF step, rhs, R
  <2>1. IsFiniteSet(Nodes) /\ Needed \in [Nodes -> SUBSET Nodes] /\ Grounded(Nodes, Needed)
    BY ConstantsAre
  <2>2. PICK r : r = << >>
    OBVIOUS
  <2>3. r \in R
    BY <1>1, <2>2
  <2> QED BY ONLY <1>3, <2>1, <2>3, FiniteRecursion
<1>5. Is(f)
  <2>1. \A x \in Nodes : f[x] = rhs(f, x)
    <3> HIDE DEF rhs, R
    <3> QED BY <1>4
  <2> HIDE DEF rhs, R
  <2> QED BY <1>4, <2>1
<1>6. PICK g : g = CHOOSE h : Is(h)
  OBVIOUS
<1>7. Is(g)
  <2> HIDE DEF Is
  <2> QED BY <1>5, <1>6
<1>8. get_read_access = g
  BY <1>6 DEF get_read_access, Nodes
<1>9. \A x \in Nodes : g[x] = rhs(g, x)
  <2> HIDE DEF rhs
  <2> QED BY <1>7
<1>10. g \in [Nodes -> R]
  <2> DEFINE G == {x \in Nodes : g[x] \in R}
  <2>1. ASSUME NEW x \in Nodes, Needed[x] \cap Nodes \subseteq G PROVE x \in G
    <3>1. \A y \in Needed[x] : g[y] \in R
      BY <2>1, ConstantsAre
    <3>2. rhs(g, x) \in R
      <4> HIDE DEF rhs, R
      <4> QED BY <1>2, <3>1
    <3> HIDE DEF rhs, R
    <3> QED BY <1>9, <3>2
  <2>2. Nodes \subseteq G
    <3> HIDE DEF G
    <3> QED BY <2>1, ConstantsAre, GroundedInduction
  <2>3. g = [x \in Nodes |-> g[x]]
    <3> HIDE DEF rhs
    <3> QED BY <1>7
  <2> HIDE DEF R, rhs
  <2> QED BY <2>2, <2>3
<1>11. NoPoset \in Nodes /\ g[NoPoset] = << >>
  BY <1>9 DEF Nodes
<1>12. ASSUME NEW x \in Posets
       PROVE  g[x] = <<<<"read", x>>>> \o g[SchemaOf[x]] \o IF x = Namespace THEN g[Primitives] ELSE << >>
  <2>1. x \in Nodes /\ x # NoPoset
    BY ConstantsAre DEF Nodes
  <2>2. g[x] = rhs(g, x)
    <3> HIDE DEF rhs
    <3> QED BY <1>9, <2>1
  <2> QED BY <2>1, <2>2
<1> QED BY <1>8, <1>10, <1>11, <1>12

\* The recursion that releases one level defines a sequence of steps for every poset.
LEMMA release_access_onceIs ==
  /\ release_access_once \in [Nodes -> Seq(Steps)]
  /\ release_access_once[NoPoset] = << >>
  /\ \A x \in Posets : release_access_once[x] =
       (IF x = Namespace THEN release_access_once[Primitives] ELSE << >>)
       \o release_access_once[SchemaOf[x]] \o <<<<"release", x>>>>
<1> DEFINE R == Seq(Steps)
           rhs(f, x) == IF x = NoPoset THEN << >>
                        ELSE (IF x = Namespace THEN f[Primitives] ELSE << >>)
                             \o f[SchemaOf[x]] \o <<<<"release", x>>>>
           step == [x \in Nodes |-> [f \in [Nodes -> R] |-> rhs(f, x)]]
           Is(f) == f = [x \in Nodes |-> rhs(f, x)]
<1>1. << >> \in R
  OBVIOUS
<1>2. ASSUME NEW x \in Nodes, NEW f, \A y \in Needed[x] : f[y] \in R
      PROVE  rhs(f, x) \in R
  <2>1. CASE x = NoPoset
    BY <1>1, <2>1
  <2>2. CASE x # NoPoset
    <3>1. x \in Posets /\ Needed[x] = Needs(x)
      BY <2>2 DEF Nodes, Needed
    <3>2. PICK s : s = <<<<"release", x>>>>
      OBVIOUS
    <3>3. s \in R /\ f[SchemaOf[x]] \in R
      BY <1>2, <3>1, <3>2, ConstantsAre, OneStep DEF Ops
    <3>4. PICK u : u = IF x = Namespace THEN f[Primitives] ELSE << >>
      OBVIOUS
    <3>5. u \in R
      BY <1>1, <1>2, <3>1, <3>4, ConstantsAre
    <3>6. (u \o f[SchemaOf[x]]) \o s \in R
      BY <3>3, <3>5, ConcatProperties
    <3>7. rhs(f, x) = (u \o f[SchemaOf[x]]) \o s
      BY <2>2, <3>2, <3>4
    <3> QED BY <3>6, <3>7
  <2> QED BY <2>1, <2>2
<1>3. StepOn(Nodes, Needed, R, step)
  <2>1. step \in [Nodes -> [[Nodes -> R] -> R]]
    <3>1. ASSUME NEW x \in Nodes, NEW f \in [Nodes -> R] PROVE rhs(f, x) \in R
      <4>1. \A y \in Needed[x] : f[y] \in R
        BY ConstantsAre
      <4> HIDE DEF rhs, R
      <4> QED BY <1>2, <4>1
    <3> HIDE DEF rhs, R
    <3> QED BY <3>1
  <2>2. ASSUME NEW x \in Nodes, NEW f \in [Nodes -> R], NEW g \in [Nodes -> R],
               \A y \in Needed[x] : f[y] = g[y]
        PROVE  step[x][f] = step[x][g]
    <3>1. step[x][f] = rhs(f, x) /\ step[x][g] = rhs(g, x)
      <4> HIDE DEF rhs, R
      <4> QED OBVIOUS
    <3>2. CASE x = NoPoset
      BY <3>1, <3>2
    <3>3. CASE x # NoPoset
      <4>1. x \in Posets /\ Needed[x] = Needs(x)
        BY <3>3 DEF Nodes, Needed
      <4>2. f[SchemaOf[x]] = g[SchemaOf[x]] /\ (x = Namespace => f[Primitives] = g[Primitives])
        BY <2>2, <4>1, ConstantsAre
      <4>3. rhs(f, x) = rhs(g, x)
        BY <3>3, <4>2
      <4> HIDE DEF step, rhs
      <4> QED BY <3>1, <4>3
    <3> HIDE DEF step, rhs
    <3> QED BY <3>2, <3>3
  <2> HIDE DEF step, rhs, R
  <2> QED BY <2>1, <2>2 DEF StepOn
<1>4. PICK f \in [Nodes -> R] : \A x \in Nodes : f[x] = step[x][f]
  <2> HIDE DEF step, rhs, R
  <2>1. IsFiniteSet(Nodes) /\ Needed \in [Nodes -> SUBSET Nodes] /\ Grounded(Nodes, Needed)
    BY ConstantsAre
  <2>2. PICK r : r = << >>
    OBVIOUS
  <2>3. r \in R
    BY <1>1, <2>2
  <2> QED BY ONLY <1>3, <2>1, <2>3, FiniteRecursion
<1>5. Is(f)
  <2>1. \A x \in Nodes : f[x] = rhs(f, x)
    <3> HIDE DEF rhs, R
    <3> QED BY <1>4
  <2> HIDE DEF rhs, R
  <2> QED BY <1>4, <2>1
<1>6. PICK g : g = CHOOSE h : Is(h)
  OBVIOUS
<1>7. Is(g)
  <2> HIDE DEF Is
  <2> QED BY <1>5, <1>6
<1>8. release_access_once = g
  BY <1>6 DEF release_access_once, Nodes
<1>9. \A x \in Nodes : g[x] = rhs(g, x)
  <2> HIDE DEF rhs
  <2> QED BY <1>7
<1>10. g \in [Nodes -> R]
  <2> DEFINE G == {x \in Nodes : g[x] \in R}
  <2>1. ASSUME NEW x \in Nodes, Needed[x] \cap Nodes \subseteq G PROVE x \in G
    <3>1. \A y \in Needed[x] : g[y] \in R
      BY <2>1, ConstantsAre
    <3>2. rhs(g, x) \in R
      <4> HIDE DEF rhs, R
      <4> QED BY <1>2, <3>1
    <3> HIDE DEF rhs, R
    <3> QED BY <1>9, <3>2
  <2>2. Nodes \subseteq G
    <3> HIDE DEF G
    <3> QED BY <2>1, ConstantsAre, GroundedInduction
  <2>3. g = [x \in Nodes |-> g[x]]
    <3> HIDE DEF rhs
    <3> QED BY <1>7
  <2> HIDE DEF R, rhs
  <2> QED BY <2>2, <2>3
<1>11. NoPoset \in Nodes /\ g[NoPoset] = << >>
  BY <1>9 DEF Nodes
<1>12. ASSUME NEW x \in Posets
       PROVE  g[x] = (IF x = Namespace THEN g[Primitives] ELSE << >>) \o g[SchemaOf[x]] \o <<<<"release", x>>>>
  <2>1. x \in Nodes /\ x # NoPoset
    BY ConstantsAre DEF Nodes
  <2>2. g[x] = rhs(g, x)
    <3> HIDE DEF rhs
    <3> QED BY <1>9, <2>1
  <2> QED BY <2>1, <2>2
<1> QED BY <1>8, <1>10, <1>11, <1>12

\* How often a request for y comes to x: once for y itself, and as often as those for
\* what y needs.
LEMMA OccurrencesAre ==
  ASSUME NEW x \in Posets
  PROVE  /\ \A y \in Nodes : Occurrences(x, y) \in Nat /\ (x \in Chain(y) <=> Occurrences(x, y) > 0)
         /\ Occurrences(x, NoPoset) = 0
         /\ \A y \in Posets : Occurrences(x, y) =
              (IF x = y THEN 1 ELSE 0) + Occurrences(x, SchemaOf[y])
              + (IF y = Namespace THEN Occurrences(x, Primitives) ELSE 0)
<1> DEFINE K == {s \in Steps : s[2] = x}
<1>1. ASSUME NEW y \in Nodes
      PROVE  /\ Occurrences(x, y) = HowMany(K, get_read_access[y])
             /\ Occurrences(x, y) \in Nat /\ (x \in Chain(y) <=> Occurrences(x, y) > 0)
  <2>1. PICK s : s = get_read_access[y]
    OBVIOUS
  <2>2. s \in Seq(Steps) /\ DOMAIN s = 1..Len(s) /\ \A i \in 1..Len(s) : s[i] \in Steps
    BY <2>1, get_read_accessIs
  <2>3. {i \in DOMAIN s : s[i][2] = x} = {i \in DOMAIN s : s[i] \in K}
    BY <2>2
  <2>4. Occurrences(x, y) = HowMany(K, s)
    BY <2>1, <2>3 DEF Occurrences, HowMany
  <2>5. HowMany(K, s) \in Nat /\ (HowMany(K, s) = 0 <=> \A i \in 1..Len(s) : s[i] \notin K)
    <3> HIDE DEF K
    <3> QED BY <2>2, HowManyType
  <2>6. x \in Chain(y) <=> \E i \in 1..Len(s) : s[i][2] = x
    BY <2>1, <2>2 DEF Chain, ToSet
  <2>7. (\E i \in 1..Len(s) : s[i][2] = x) <=> ~(\A i \in 1..Len(s) : s[i] \notin K)
    BY <2>2
  <2> QED BY <2>1, <2>4, <2>5, <2>6, <2>7
<1>2. Occurrences(x, NoPoset) = 0
  <2>1. PICK s : s = get_read_access[NoPoset]
    OBVIOUS
  <2>2. s \in Seq(Steps) /\ Len(s) = 0
    BY <2>1, get_read_accessIs
  <2>3. HowMany(K, s) = 0
    <3> HIDE DEF K
    <3>1. \A i \in 1..Len(s) : s[i] \notin K
      BY <2>2
    <3> QED BY <2>2, <3>1, HowManyType
  <2>4. NoPoset \in Nodes
    BY DEF Nodes
  <2> QED BY <1>1, <2>1, <2>3, <2>4
<1>3. ASSUME NEW y \in Posets
      PROVE  Occurrences(x, y) =
              (IF x = y THEN 1 ELSE 0) + Occurrences(x, SchemaOf[y])
              + (IF y = Namespace THEN Occurrences(x, Primitives) ELSE 0)
  <2>1. PICK s : s = <<<<"read", y>>>>
    OBVIOUS
  <2>2. PICK t : t = get_read_access[SchemaOf[y]]
    OBVIOUS
  <2>3. PICK u : u = IF y = Namespace THEN get_read_access[Primitives] ELSE << >>
    OBVIOUS
  <2>4. SchemaOf[y] \in Nodes /\ Primitives \in Nodes /\ y \in Nodes
    BY ConstantsAre DEF Nodes
  <2>5. s \in Seq(Steps) /\ t \in Seq(Steps) /\ u \in Seq(Steps)
        /\ Len(s) = 1 /\ s[1] = <<"read", y>>
    <3>1. << >> \in Seq(Steps)
      OBVIOUS
    <3> QED BY <2>1, <2>2, <2>3, <2>4, <3>1, get_read_accessIs, OneStep DEF Ops
  <2>6. get_read_access[y] = (s \o t) \o u
    BY <2>1, <2>2, <2>3, get_read_accessIs
  <2>7. s \o t \in Seq(Steps)
    BY <2>5, ConcatProperties
  <2> HIDE DEF K
  <2>8. HowMany(K, get_read_access[y]) = HowMany(K, s) + HowMany(K, t) + HowMany(K, u)
    <3>1. HowMany(K, (s \o t) \o u) = HowMany(K, s \o t) + HowMany(K, u)
      BY <2>5, <2>7, HowManyConcat
    <3>2. HowMany(K, s \o t) = HowMany(K, s) + HowMany(K, t)
      BY <2>5, HowManyConcat
    <3> QED BY <2>6, <3>1, <3>2
  <2>9. HowMany(K, s) = IF x = y THEN 1 ELSE 0
    <3>1. HowMany(K, s) = IF <<"read", y>> \in K THEN 1 ELSE 0
      BY <2>5, HowManyOne
    <3>2. <<"read", y>> \in K <=> x = y
      BY OneStep DEF Ops, K
    <3> QED BY <3>1, <3>2
  <2>10. HowMany(K, t) = Occurrences(x, SchemaOf[y])
    BY <1>1, <2>2, <2>4
  <2>11. HowMany(K, u) = IF y = Namespace THEN Occurrences(x, Primitives) ELSE 0
    <3>1. CASE y = Namespace
      BY <1>1, <2>3, <2>4, <3>1
    <3>2. CASE y # Namespace
      <4>1. Len(u) = 0
        BY <2>3, <3>2
      <4>2. \A i \in 1..Len(u) : u[i] \notin K
        BY <4>1
      <4>3. HowMany(K, u) = 0
        BY <2>5, <4>2, HowManyType
      <4> QED BY <3>2, <4>3
    <3> QED BY <3>1, <3>2
  <2> QED BY <1>1, <2>4, <2>8, <2>9, <2>10, <2>11
<1> HIDE DEF K
<1> QED BY <1>1, <1>2, <1>3

(***************************************************************************)
(* The chains: what a poset needs is in its chain, with all of its chain,  *)
(* and no two posets are in each other's.                                  *)
(***************************************************************************)
LEMMA ChainIs ==
  ASSUME NEW y \in Posets
  PROVE  /\ y \in Chain(y) /\ Chain(y) \subseteq Posets /\ Chain(NoPoset) = {}
         /\ \A z \in Needs(y) : Chain(z) \subseteq Chain(y)
         /\ \A x \in Chain(y) : x = y \/ \E z \in Needs(y) : x \in Chain(z)
<1>1. \A z \in Nodes : Chain(z) \subseteq Posets
  <2> SUFFICES ASSUME NEW z \in Nodes PROVE Chain(z) \subseteq Posets
    OBVIOUS
  <2>1. PICK s : s = get_read_access[z]
    OBVIOUS
  <2>2. s \in Seq(Steps) /\ \A i \in DOMAIN s : s[i] \in Steps
    BY <2>1, get_read_accessIs
  <2> QED BY <2>1, <2>2 DEF Chain, ToSet, Steps
<1>2. NoPoset \in Nodes /\ y \in Nodes /\ SchemaOf[y] \in Nodes /\ Primitives \in Nodes
      /\ SchemaOf[y] \in Needs(y) /\ (y = Namespace => Primitives \in Needs(y))
      /\ \A z \in Needs(y) : z = SchemaOf[y] \/ (z = Primitives /\ y = Namespace)
  <2>1. \A z \in Needs(y) : z = SchemaOf[y] \/ (z = Primitives /\ y = Namespace)
    BY DEF Needs
  <2>2. y \in Nodes /\ NoPoset \in Nodes
    BY DEF Nodes
  <2>3. SchemaOf[y] \in Nodes /\ Primitives \in Nodes
    BY ConstantsAre
  <2>4. SchemaOf[y] \in Needs(y) /\ (y = Namespace => Primitives \in Needs(y))
    BY ConstantsAre
  <2> QED BY <2>1, <2>2, <2>3, <2>4
<1>3. Chain(NoPoset) = {}
  <2>1. \A x \in Posets : ~(Occurrences(x, NoPoset) > 0)
    BY OccurrencesAre
  <2> QED BY <1>1, <1>2, <2>1, OccurrencesAre
<1>4. ASSUME NEW x \in Posets
      PROVE  x \in Chain(y) <=> x = y \/ x \in Chain(SchemaOf[y]) \/ (y = Namespace /\ x \in Chain(Primitives))
  <2>1. /\ Occurrences(x, y) \in Nat /\ Occurrences(x, SchemaOf[y]) \in Nat /\ Occurrences(x, Primitives) \in Nat
        /\ (x \in Chain(y) <=> Occurrences(x, y) > 0)
        /\ (x \in Chain(SchemaOf[y]) <=> Occurrences(x, SchemaOf[y]) > 0)
        /\ (x \in Chain(Primitives) <=> Occurrences(x, Primitives) > 0)
    BY <1>2, OccurrencesAre
  <2>2. Occurrences(x, y) =
              (IF x = y THEN 1 ELSE 0) + Occurrences(x, SchemaOf[y])
              + (IF y = Namespace THEN Occurrences(x, Primitives) ELSE 0)
    BY OccurrencesAre
  <2> QED BY <2>1, <2>2
<1> QED BY <1>1, <1>2, <1>3, <1>4

\* What is needed by what y needs is needed by y.
LEMMA ChainOfChain ==
  ASSUME NEW y \in Posets, NEW z \in Chain(y)
  PROVE  Chain(z) \subseteq Chain(y)
<1> DEFINE G == {w \in Nodes : \A v \in Chain(w) : Chain(v) \subseteq Chain(w)}
<1>1. ASSUME NEW w \in Nodes, Needed[w] \cap Nodes \subseteq G PROVE w \in G
  <2>1. CASE w = NoPoset
    BY <2>1, ChainIs
  <2>2. CASE w # NoPoset
    <3>1. w \in Posets /\ Needed[w] = Needs(w) /\ Needs(w) \subseteq Nodes
      BY <2>2, ConstantsAre DEF Nodes, Needed
    <3>2. ASSUME NEW v \in Chain(w) PROVE Chain(v) \subseteq Chain(w)
      <4>1. CASE v = w
        BY <4>1
      <4>2. CASE v # w
        <5>1. PICK u \in Needs(w) : v \in Chain(u)
          BY <3>1, <4>2, ChainIs
        <5>2. Chain(v) \subseteq Chain(u)
          BY <1>1, <3>1, <5>1
        <5> QED BY <3>1, <5>1, <5>2, ChainIs
      <4> QED BY <4>1, <4>2
    <3> QED BY <3>2
  <2> QED BY <2>1, <2>2
<1>2. Nodes \subseteq G
  <2> HIDE DEF G
  <2> QED BY <1>1, ConstantsAre, GroundedInduction
<1> QED BY <1>2 DEF Nodes

\* No two posets need each other.
LEMMA ChainsAreWays ==
  ASSUME NEW x \in Posets, NEW y \in Posets, x # y, x \in Chain(y)
  PROVE  y \notin Chain(x)
<1> SUFFICES ASSUME y \in Chain(x) PROVE FALSE
  OBVIOUS
<1> DEFINE M == {w \in Posets : y \in Chain(w) /\ w \in Chain(y)}
<1>1. M \in (SUBSET Posets) \ {{}}
  BY ChainIs
<1>2. ASSUME NEW w \in M PROVE Needs(w) \cap M # {}
  <2>1. PICK v \in Posets : v \in Chain(w) /\ v # w /\ y \in Chain(v)
    <3>1. CASE w = y
      BY <3>1
    <3>2. CASE w # y
      BY <3>2, ChainIs
    <3> QED BY <3>1, <3>2
  <2>2. PICK u \in Needs(w) : v \in Chain(u)
    BY <2>1, ChainIs
  <2>3. u \in Nodes /\ u # NoPoset
    <3>1. w \in Nodes /\ w # NoPoset /\ Needed[w] = Needs(w)
      BY ConstantsAre DEF Nodes, Needed
    <3>2. u \in Nodes
      BY <3>1, ConstantsAre
    <3> QED BY <2>2, <3>2, ChainIs
  <2>4. u \in Posets
    BY <2>3 DEF Nodes
  <2>5. y \in Chain(u)
    BY <2>1, <2>2, <2>4, ChainOfChain
  <2>6. u \in Chain(w) /\ w \in Posets /\ w \in Chain(y)
    BY <2>4, ChainIs
  <2>7. u \in Chain(y)
    BY <2>6, ChainOfChain
  <2> QED BY <2>4, <2>5, <2>7
<1>3. PICK w \in M : Needs(w) \cap M = {}
  <2> HIDE DEF M
  <2> QED BY <1>1, PosetsAssumption
<1> QED BY <1>2, <1>3

\* A request for x comes to x once.
LEMMA OnceInItsChain ==
  ASSUME NEW x \in Posets
  PROVE  /\ Occurrences(x, x) = 1 /\ Occurrences(x, SchemaOf[x]) = 0
         /\ x = Namespace => Occurrences(x, Primitives) = 0
         /\ \A z \in Needs(x) : x \notin Chain(z)
<1>1. ASSUME NEW z \in Needs(x) PROVE x \notin Chain(z) /\ z \in Nodes
  <2>1. Needed[x] = Needs(x) /\ x \in Nodes
    BY ConstantsAre DEF Needed, Nodes
  <2>2. z \in Nodes
    BY <2>1, ConstantsAre
  <2>3. CASE z = NoPoset
    BY <2>2, <2>3, ChainIs
  <2>4. CASE z \in Posets
    <3>1. z \in Chain(x)
      BY <2>4, ChainIs
    <3>2. z # x
      <4>1. {x} \in (SUBSET Posets) \ {{}}
        OBVIOUS
      <4>2. Needs(x) \cap {x} = {}
        BY <4>1, PosetsAssumption
      <4> QED BY <4>2
    <3> QED BY <2>2, <2>4, <3>1, <3>2, ChainsAreWays
  <2> QED BY <2>2, <2>3, <2>4 DEF Nodes
<1>2. Occurrences(x, SchemaOf[x]) = 0
  <2>1. SchemaOf[x] \in Needs(x)
    BY ConstantsAre
  <2>2. SchemaOf[x] \in Nodes /\ x \notin Chain(SchemaOf[x])
    BY <1>1, <2>1
  <2> QED BY <2>2, OccurrencesAre
<1>3. x = Namespace => Occurrences(x, Primitives) = 0
  <2> SUFFICES ASSUME x = Namespace PROVE Occurrences(x, Primitives) = 0
    OBVIOUS
  <2>1. Primitives \in Nodes /\ x \notin Chain(Primitives)
    BY <1>1, ConstantsAre
  <2> QED BY <2>1, OccurrencesAre
<1>4. Occurrences(x, x) = 1
  BY <1>2, <1>3, OccurrencesAre
<1> QED BY <1>1, <1>2, <1>3, <1>4

(***************************************************************************)
(* What the sequences of steps make of one poset: n levels more, n levels  *)
(* less of a poset that is only read, one request to write.                *)
(***************************************************************************)
At(m, d, s, e) == [mode |-> m, depth |-> d, switch |-> s, edits |-> e]

\* n levels more; the first of them makes a reader.
Got(a, n) == At(IF n = 0 \/ a.mode # "none" THEN a.mode ELSE "read", a.depth + n, a.switch, a.edits)
\* n levels less; the last of them makes a stranger.
Gave(a, n) == At(IF n = 0 \/ n < a.depth THEN a.mode ELSE "none", a.depth - n, a.switch, a.edits)
\* A request to write; a reader notes the depth it upgrades at.
Wrote(a) == At("write", a.depth + 1, IF a.mode = "read" THEN a.depth ELSE a.switch, a.edits)

\* The fields of a local state.
LEMMA LocalIs ==
  /\ \A m \in {"none", "read", "write"}, d \in Nat, s \in Nat, e \in Nat :
       (m # "write" => e = 0) => At(m, d, s, e) \in LocalState
  /\ \A m, d, s, e : /\ At(m, d, s, e).mode = m /\ At(m, d, s, e).depth = d
                     /\ At(m, d, s, e).switch = s /\ At(m, d, s, e).edits = e
  /\ \A a \in LocalState :
       /\ a = At(a.mode, a.depth, a.switch, a.edits)
       /\ a.mode \in {"none", "read", "write"} /\ a.depth \in Nat /\ a.switch \in Nat
       /\ a.edits \in Nat /\ (a.mode # "write" => a.edits = 0)
BY DEF LocalState, At

\* The fields tell the states apart.
LEMMA SameLocal ==
  ASSUME NEW a \in LocalState, NEW b \in LocalState,
         a.mode = b.mode, a.depth = b.depth, a.switch = b.switch, a.edits = b.edits
  PROVE  a = b
<1>1. /\ a = At(a.mode, a.depth, a.switch, a.edits)
      /\ b = At(b.mode, b.depth, b.switch, b.edits)
  BY LocalIs
<1> QED BY <1>1

\* The fields after n levels more.
LEMMA GotIs ==
  ASSUME NEW a \in LocalState, NEW n \in Nat
  PROVE  /\ Got(a, n) \in LocalState
         /\ Got(a, n).mode = IF n = 0 \/ a.mode # "none" THEN a.mode ELSE "read"
         /\ Got(a, n).depth = a.depth + n /\ Got(a, n).switch = a.switch /\ Got(a, n).edits = a.edits
<1>1. PICK m, d : m = (IF n = 0 \/ a.mode # "none" THEN a.mode ELSE "read") /\ d = a.depth + n
  OBVIOUS
<1>2. m \in {"none", "read", "write"} /\ d \in Nat /\ (m # "write" => a.edits = 0)
      /\ a.switch \in Nat /\ a.edits \in Nat
  BY <1>1, LocalIs
<1>3. Got(a, n) = At(m, d, a.switch, a.edits)
  BY <1>1 DEF Got
<1>4. At(m, d, a.switch, a.edits) \in LocalState
  BY <1>2, LocalIs
<1>5. PICK b : b = At(m, d, a.switch, a.edits)
  OBVIOUS
<1>6. b.mode = m /\ b.depth = d /\ b.switch = a.switch /\ b.edits = a.edits
  BY <1>5 DEF At
<1> QED BY <1>1, <1>3, <1>4, <1>5, <1>6

\* The fields after n levels less.
LEMMA GaveIs ==
  ASSUME NEW a \in LocalState, NEW n \in Nat, a.mode # "write", n <= a.depth
  PROVE  /\ Gave(a, n) \in LocalState
         /\ Gave(a, n).mode = IF n = 0 \/ n < a.depth THEN a.mode ELSE "none"
         /\ Gave(a, n).mode # "write"
         /\ Gave(a, n).depth = a.depth - n /\ Gave(a, n).switch = a.switch /\ Gave(a, n).edits = a.edits
<1>1. PICK m, d : m = (IF n = 0 \/ n < a.depth THEN a.mode ELSE "none") /\ d = a.depth - n
  OBVIOUS
<1>2. m \in {"none", "read"} /\ d \in Nat /\ a.edits = 0
      /\ a.switch \in Nat /\ a.edits \in Nat
  BY <1>1, LocalIs
<1>3. Gave(a, n) = At(m, d, a.switch, a.edits)
  BY <1>1 DEF Gave
<1>4. At(m, d, a.switch, a.edits) \in LocalState
  BY <1>2, LocalIs
<1>5. PICK b : b = At(m, d, a.switch, a.edits)
  OBVIOUS
<1>6. b.mode = m /\ b.depth = d /\ b.switch = a.switch /\ b.edits = a.edits
  BY <1>5 DEF At
<1> QED BY <1>1, <1>2, <1>3, <1>4, <1>5, <1>6

\* The fields after a request to write.
LEMMA WroteIs ==
  ASSUME NEW a \in LocalState
  PROVE  /\ Wrote(a) \in LocalState /\ Wrote(a).mode = "write" /\ Wrote(a).depth = a.depth + 1
         /\ Wrote(a).switch = IF a.mode = "read" THEN a.depth ELSE a.switch
         /\ Wrote(a).edits = a.edits
<1>1. PICK s, d : s = (IF a.mode = "read" THEN a.depth ELSE a.switch) /\ d = a.depth + 1
  OBVIOUS
<1>2. s \in Nat /\ d \in Nat /\ a.edits \in Nat
  BY <1>1, LocalIs
<1>3. Wrote(a) = At("write", d, s, a.edits)
  BY <1>1 DEF Wrote
<1>4. At("write", d, s, a.edits) \in LocalState
  BY <1>2, LocalIs
<1>5. PICK b : b = At("write", d, s, a.edits)
  OBVIOUS
<1>6. b.mode = "write" /\ b.depth = d /\ b.switch = s /\ b.edits = a.edits
  BY <1>5 DEF At
<1> QED BY <1>1, <1>3, <1>4, <1>5, <1>6

\* Levels taken or given back in two goes.
LEMMA LevelsAdd ==
  ASSUME NEW a \in LocalState, NEW m \in Nat, NEW n \in Nat
  PROVE  /\ Got(a, n) \in LocalState /\ Got(a, 0) = a /\ Got(Got(a, m), n) = Got(a, m + n)
         /\ Gave(a, 0) = a /\ Wrote(a) \in LocalState
         /\ a.mode # "write" /\ m + n <= a.depth =>
              /\ Gave(a, m) \in LocalState /\ Gave(Gave(a, m), n) = Gave(a, m + n)
              /\ Gave(a, m).mode # "write" /\ Gave(a, m).depth = a.depth - m
<1>1. Got(a, n) \in LocalState /\ Wrote(a) \in LocalState /\ a.depth \in Nat
  BY GotIs, WroteIs, LocalIs
<1>2. Got(a, 0) = a
  <2>1. /\ Got(a, 0) \in LocalState /\ Got(a, 0).mode = a.mode
        /\ Got(a, 0).depth = a.depth + 0 /\ Got(a, 0).switch = a.switch /\ Got(a, 0).edits = a.edits
    BY GotIs
  <2> QED BY <1>1, <2>1, SameLocal
<1>3. Gave(a, 0) = a
  <2>1. a = At(a.mode, a.depth, a.switch, a.edits) /\ a.depth - 0 = a.depth
    BY <1>1, LocalIs
  <2> QED BY <2>1 DEF Gave
<1>4. Got(Got(a, m), n) = Got(a, m + n)
  <2>1. PICK b : b = Got(a, m)
    OBVIOUS
  <2>2. /\ b \in LocalState
        /\ b.mode = IF m = 0 \/ a.mode # "none" THEN a.mode ELSE "read"
        /\ b.depth = a.depth + m /\ b.switch = a.switch /\ b.edits = a.edits
    BY <2>1, GotIs
  <2>3. PICK c, d : c = Got(b, n) /\ d = Got(a, m + n)
    OBVIOUS
  <2>4. /\ c \in LocalState
        /\ c.mode = IF n = 0 \/ b.mode # "none" THEN b.mode ELSE "read"
        /\ c.depth = b.depth + n /\ c.switch = b.switch /\ c.edits = b.edits
    BY <2>2, <2>3, GotIs
  <2>5. /\ d \in LocalState
        /\ d.mode = IF m + n = 0 \/ a.mode # "none" THEN a.mode ELSE "read"
        /\ d.depth = a.depth + (m + n) /\ d.switch = a.switch /\ d.edits = a.edits
    BY <2>3, GotIs
  <2>6. c.mode = d.mode /\ c.depth = d.depth
    BY <1>1, <2>2, <2>4, <2>5
  <2> QED BY <2>1, <2>2, <2>3, <2>4, <2>5, <2>6, SameLocal
<1>5. ASSUME a.mode # "write", m + n <= a.depth
      PROVE  /\ Gave(a, m) \in LocalState /\ Gave(Gave(a, m), n) = Gave(a, m + n)
             /\ Gave(a, m).mode # "write" /\ Gave(a, m).depth = a.depth - m
  <2>1. PICK b : b = Gave(a, m)
    OBVIOUS
  <2>2. /\ b \in LocalState /\ b.mode # "write"
        /\ b.mode = IF m = 0 \/ m < a.depth THEN a.mode ELSE "none"
        /\ b.depth = a.depth - m /\ b.switch = a.switch /\ b.edits = a.edits
    BY <1>1, <1>5, <2>1, GaveIs
  <2>3. PICK c, d : c = Gave(b, n) /\ d = Gave(a, m + n)
    OBVIOUS
  <2>4. n <= b.depth
    BY <1>1, <1>5, <2>2
  <2>5. /\ c \in LocalState
        /\ c.mode = IF n = 0 \/ n < b.depth THEN b.mode ELSE "none"
        /\ c.depth = b.depth - n /\ c.switch = b.switch /\ c.edits = b.edits
    BY <2>2, <2>3, <2>4, GaveIs
  <2>6. /\ d \in LocalState
        /\ d.mode = IF m + n = 0 \/ m + n < a.depth THEN a.mode ELSE "none"
        /\ d.depth = a.depth - (m + n) /\ d.switch = a.switch /\ d.edits = a.edits
    BY <1>5, <2>3, GaveIs
  <2>7. c.mode = d.mode /\ c.depth = d.depth
    BY <1>1, <1>5, <2>2, <2>5, <2>6
  <2> QED BY <2>1, <2>2, <2>3, <2>5, <2>6, <2>7, SameLocal
<1> QED BY <1>1, <1>2, <1>3, <1>4, <1>5

\* get_read_access of y takes a level of x for every occurrence of x.
LEMMA GetLeads ==
  ASSUME NEW x \in Posets
  PROVE  \A y \in Nodes : \A a \in LocalState : Leads(get_read_access[y], x, a, Got(a, Occurrences(x, y)))
<1> DEFINE G == {y \in Nodes : \A a \in LocalState : Leads(get_read_access[y], x, a, Got(a, Occurrences(x, y)))}
<1>1. ASSUME NEW y \in Nodes, Needed[y] \cap Nodes \subseteq G PROVE y \in G
  <2> SUFFICES ASSUME NEW a \in LocalState PROVE Leads(get_read_access[y], x, a, Got(a, Occurrences(x, y)))
    OBVIOUS
  <2>1. CASE y = NoPoset
    BY <2>1, get_read_accessIs, OccurrencesAre, LevelsAdd, LeadsNowhere
  <2>2. CASE y # NoPoset
    <3>1. y \in Posets /\ Needed[y] = Needs(y)
      BY <2>2 DEF Nodes, Needed
    <3>2. SchemaOf[y] \in G /\ (y = Namespace => Primitives \in G) /\ SchemaOf[y] \in Nodes /\ Primitives \in Nodes
      BY <1>1, <3>1, ConstantsAre
    <3>3. PICK s : s = <<<<"read", y>>>>
      OBVIOUS
    <3>4. PICK u : u = IF y = Namespace THEN get_read_access[Primitives] ELSE << >>
      OBVIOUS
    <3>5. PICK k, m, n : /\ k = (IF x = y THEN 1 ELSE 0) /\ m = Occurrences(x, SchemaOf[y])
                         /\ n = IF y = Namespace THEN Occurrences(x, Primitives) ELSE 0
      OBVIOUS
    <3>6. k \in Nat /\ m \in Nat /\ n \in Nat /\ Occurrences(x, y) = (k + m) + n
      BY <3>1, <3>2, <3>5, OccurrencesAre
    <3>7. s \in Seq(Steps) /\ Len(s) = 1 /\ s[1][1] = "read" /\ s[1][2] = y
      BY <3>1, <3>3, OneStep DEF Ops
    <3>8. get_read_access[SchemaOf[y]] \in Seq(Steps) /\ u \in Seq(Steps)
      BY <3>2, <3>4, get_read_accessIs
    <3>9. Leads(s, x, a, Got(a, k))
      <4>1. Goes(s[1], x, a, Got(a, k))
        <5>1. CASE x = y
          <6>1. k = 1
            BY <3>5, <5>1
          <6>2. /\ Got(a, 1).mode = IF a.mode = "none" THEN "read" ELSE a.mode
                /\ Got(a, 1).depth = a.depth + 1 /\ Got(a, 1).switch = a.switch /\ Got(a, 1).edits = a.edits
            BY GotIs
          <6> QED BY <3>7, <5>1, <6>1, <6>2 DEF Goes, Moves, Keeps
        <5>2. CASE x # y
          <6>1. k = 0 /\ Got(a, 0) = a
            BY <3>5, <5>2, LevelsAdd
          <6> QED BY <3>7, <5>2, <6>1 DEF Goes
        <5> QED BY <5>1, <5>2
      <4> QED BY <3>6, <3>7, <4>1, LeadsOne, LevelsAdd
    <3>10. Leads(s \o get_read_access[SchemaOf[y]], x, a, Got(a, k + m))
      <4>1. Leads(get_read_access[SchemaOf[y]], x, Got(a, k), Got(Got(a, k), m))
        BY <3>2, <3>5, <3>6, LevelsAdd
      <4>2. Got(Got(a, k), m) = Got(a, k + m)
        BY <3>6, LevelsAdd
      <4> QED BY <3>7, <3>8, <3>9, <4>1, <4>2, LeadsOn
    <3>11. Leads(u, x, Got(a, k + m), Got(a, (k + m) + n))
      <4>1. k + m \in Nat /\ Got(a, k + m) \in LocalState /\ Got(Got(a, k + m), n) = Got(a, (k + m) + n)
        BY <3>6, LevelsAdd
      <4>2. CASE y = Namespace
        BY <3>2, <3>4, <3>5, <4>1, <4>2
      <4>3. CASE y # Namespace
        BY <3>4, <3>5, <4>1, <4>3, LevelsAdd, LeadsNowhere
      <4> QED BY <4>2, <4>3
    <3>12. s \o get_read_access[SchemaOf[y]] \in Seq(Steps)
      BY <3>7, <3>8, ConcatProperties
    <3>13. Leads((s \o get_read_access[SchemaOf[y]]) \o u, x, a, Got(a, (k + m) + n))
      BY <3>8, <3>10, <3>11, <3>12, LeadsOn
    <3>14. get_read_access[y] = (s \o get_read_access[SchemaOf[y]]) \o u
      BY <3>1, <3>3, <3>4, get_read_accessIs
    <3> QED BY <3>6, <3>13, <3>14
  <2> QED BY <2>1, <2>2
<1>2. Nodes \subseteq G
  <2> HIDE DEF G
  <2> QED BY <1>1, ConstantsAre, GroundedInduction
<1> QED BY <1>2

\* release_access of y leaves x as it is if x does not occur.
LEMMA NoneLeads ==
  ASSUME NEW x \in Posets
  PROVE  \A y \in Nodes : Occurrences(x, y) = 0 =>
           \A a \in LocalState : Leads(release_access_once[y], x, a, a)
<1> DEFINE G == {y \in Nodes : Occurrences(x, y) = 0 =>
                   \A a \in LocalState : Leads(release_access_once[y], x, a, a)}
<1>1. ASSUME NEW y \in Nodes, Needed[y] \cap Nodes \subseteq G PROVE y \in G
  <2> SUFFICES ASSUME Occurrences(x, y) = 0, NEW a \in LocalState PROVE Leads(release_access_once[y], x, a, a)
    OBVIOUS
  <2>1. CASE y = NoPoset
    BY <2>1, release_access_onceIs, LeadsNowhere
  <2>2. CASE y # NoPoset
    <3>1. y \in Posets /\ Needed[y] = Needs(y)
      BY <2>2 DEF Nodes, Needed
    <3>2. SchemaOf[y] \in G /\ (y = Namespace => Primitives \in G) /\ SchemaOf[y] \in Nodes /\ Primitives \in Nodes
      BY <1>1, <3>1, ConstantsAre
    <3>3. PICK s : s = <<<<"release", y>>>>
      OBVIOUS
    <3>4. PICK u : u = IF y = Namespace THEN release_access_once[Primitives] ELSE << >>
      OBVIOUS
    <3>5. PICK v : v = release_access_once[SchemaOf[y]]
      OBVIOUS
    <3>6. /\ Occurrences(x, SchemaOf[y]) = 0 /\ x # y
          /\ y = Namespace => Occurrences(x, Primitives) = 0
      <4>1. /\ Occurrences(x, SchemaOf[y]) \in Nat /\ Occurrences(x, Primitives) \in Nat
            /\ Occurrences(x, y) =
                (IF x = y THEN 1 ELSE 0) + Occurrences(x, SchemaOf[y])
                + (IF y = Namespace THEN Occurrences(x, Primitives) ELSE 0)
        BY <3>1, <3>2, OccurrencesAre
      <4> QED BY <4>1
    <3>7. s \in Seq(Steps) /\ Len(s) = 1 /\ s[1][1] = "release" /\ s[1][2] = y
      BY <3>1, <3>3, OneStep DEF Ops
    <3>8. v \in Seq(Steps) /\ u \in Seq(Steps) /\ u \o v \in Seq(Steps)
      BY <3>2, <3>4, <3>5, release_access_onceIs, ConcatProperties
    <3>9. Leads(s, x, a, a)
      BY <3>6, <3>7, LeadsOne DEF Goes
    <3>10. Leads(u, x, a, a)
      <4>1. CASE y = Namespace
        BY <3>2, <3>4, <3>6, <4>1
      <4>2. CASE y # Namespace
        BY <3>4, <4>2, LeadsNowhere
      <4> QED BY <4>1, <4>2
    <3>11. Leads(v, x, a, a)
      BY <3>2, <3>5, <3>6
    <3>12. Leads((u \o v) \o s, x, a, a)
      BY <3>7, <3>8, <3>9, <3>10, <3>11, LeadsOn
    <3> QED BY <3>1, <3>3, <3>4, <3>5, <3>12, release_access_onceIs
  <2> QED BY <2>1, <2>2
<1>2. Nodes \subseteq G
  <2> HIDE DEF G
  <2> QED BY <1>1, ConstantsAre, GroundedInduction
<1> QED BY <1>2

\* release_access of y gives a level of x back for every occurrence of x.
LEMMA ReleaseLeads ==
  ASSUME NEW x \in Posets
  PROVE  \A y \in Nodes : \A a \in LocalState :
           a.mode # "write" /\ Occurrences(x, y) <= a.depth =>
             Leads(release_access_once[y], x, a, Gave(a, Occurrences(x, y)))
<1> DEFINE G == {y \in Nodes : \A a \in LocalState :
                   a.mode # "write" /\ Occurrences(x, y) <= a.depth =>
                     Leads(release_access_once[y], x, a, Gave(a, Occurrences(x, y)))}
<1>1. ASSUME NEW y \in Nodes, Needed[y] \cap Nodes \subseteq G PROVE y \in G
  <2> SUFFICES ASSUME NEW a \in LocalState, a.mode # "write", Occurrences(x, y) <= a.depth
               PROVE  Leads(release_access_once[y], x, a, Gave(a, Occurrences(x, y)))
    OBVIOUS
  <2>1. CASE y = NoPoset
    BY <2>1, release_access_onceIs, OccurrencesAre, LevelsAdd, LeadsNowhere
  <2>2. CASE y # NoPoset
    <3>1. y \in Posets /\ Needed[y] = Needs(y)
      BY <2>2 DEF Nodes, Needed
    <3>2. SchemaOf[y] \in G /\ (y = Namespace => Primitives \in G) /\ SchemaOf[y] \in Nodes /\ Primitives \in Nodes
      BY <1>1, <3>1, ConstantsAre
    <3>3. PICK s : s = <<<<"release", y>>>>
      OBVIOUS
    <3>4. PICK u : u = IF y = Namespace THEN release_access_once[Primitives] ELSE << >>
      OBVIOUS
    <3>5. PICK v : v = release_access_once[SchemaOf[y]]
      OBVIOUS
    <3>6. PICK k, m, n : /\ k = (IF x = y THEN 1 ELSE 0) /\ m = Occurrences(x, SchemaOf[y])
                         /\ n = IF y = Namespace THEN Occurrences(x, Primitives) ELSE 0
      OBVIOUS
    <3>7. k \in Nat /\ m \in Nat /\ n \in Nat /\ Occurrences(x, y) = (n + m) + k /\ a.depth \in Nat
      <4>1. a.depth \in Nat
        BY LocalIs
      <4>2. m \in Nat /\ n \in Nat /\ k \in Nat
        BY <3>2, <3>6, OccurrencesAre
      <4>3. Occurrences(x, y) = k + m + n
        BY <3>1, <3>6, OccurrencesAre
      <4> QED BY <4>1, <4>2, <4>3
    <3>8. s \in Seq(Steps) /\ Len(s) = 1 /\ s[1][1] = "release" /\ s[1][2] = y
      BY <3>1, <3>3, OneStep DEF Ops
    <3>9. v \in Seq(Steps) /\ u \in Seq(Steps) /\ u \o v \in Seq(Steps)
      BY <3>2, <3>4, <3>5, release_access_onceIs, ConcatProperties
    <3>10. (n + m) + k <= a.depth /\ n + m <= a.depth /\ n <= a.depth /\ n + m \in Nat /\ n + 0 = n
           /\ m <= a.depth - n /\ k <= a.depth - (n + m)
      BY <3>7
    <3>11. Leads(u, x, a, Gave(a, n))
      <4>1. CASE y = Namespace
        BY <3>2, <3>4, <3>6, <3>10, <4>1
      <4>2. CASE y # Namespace
        BY <3>4, <3>6, <4>2, LevelsAdd, LeadsNowhere
      <4> QED BY <4>1, <4>2
    <3>12. /\ Gave(a, n) \in LocalState /\ Gave(a, n).mode # "write" /\ Gave(a, n).depth = a.depth - n
           /\ Gave(Gave(a, n), m) = Gave(a, n + m)
      <4>1. n \in Nat /\ m \in Nat /\ a.mode # "write" /\ n + m <= a.depth
        BY <3>7, <3>10
      <4> QED BY <4>1, LevelsAdd
    <3>13. /\ Gave(a, n + m) \in LocalState /\ Gave(a, n + m).mode # "write"
           /\ Gave(a, n + m).depth = a.depth - (n + m)
           /\ Gave(Gave(a, n + m), k) = Gave(a, (n + m) + k)
      <4>1. n + m \in Nat /\ k \in Nat /\ a.mode # "write" /\ (n + m) + k <= a.depth
        BY <3>7, <3>10
      <4> QED BY <4>1, LevelsAdd
    <3>14. Leads(v, x, Gave(a, n), Gave(a, n + m))
      <4>1. PICK c : c = Gave(a, n)
        OBVIOUS
      <4>2. c \in LocalState /\ c.mode # "write" /\ m <= c.depth
        BY <3>10, <3>12, <4>1
      <4>3. Leads(v, x, c, Gave(c, m))
        BY <3>2, <3>5, <3>6, <4>2
      <4> QED BY <3>12, <4>1, <4>3
    <3>15. Leads(s, x, Gave(a, n + m), Gave(a, (n + m) + k))
      <4>1. PICK c : c = Gave(a, n + m)
        OBVIOUS
      <4>2. c \in LocalState /\ c.mode # "write" /\ c.depth \in Nat /\ k <= c.depth
        <5>1. c \in LocalState /\ c.mode # "write" /\ k <= c.depth
          BY <3>10, <3>13, <4>1
        <5> QED BY <5>1, LocalIs
      <4>3. Gave(c, k) \in LocalState
        BY <3>7, <4>2, GaveIs
      <4>4. Goes(s[1], x, c, Gave(c, k))
        <5>1. CASE x = y
          <6>1. k = 1 /\ Gave(c, 1).depth = c.depth - 1 /\ Gave(c, 1).edits = c.edits /\ Gave(c, 1).switch = c.switch
                /\ Gave(c, 1).mode = IF c.depth - 1 = 0 THEN "none" ELSE c.mode
            <7>1. k = 1
              BY <3>6, <5>1
            <7>2. 1 <= c.depth /\ (1 < c.depth <=> c.depth - 1 # 0) /\ 1 # 0
              BY <4>2, <7>1
            <7> QED BY <4>2, <7>1, <7>2, GaveIs
          <6>2. Releases(c, Gave(c, 1))
            BY <4>2, <6>1 DEF Releases
          <6> QED BY <3>8, <5>1, <6>1, <6>2 DEF Goes, Moves
        <5>2. CASE x # y
          BY <3>6, <3>8, <4>2, <5>2, LevelsAdd DEF Goes
        <5> QED BY <5>1, <5>2
      <4>5. Leads(s, x, c, Gave(c, k))
        BY <3>8, <4>2, <4>3, <4>4, LeadsOne
      <4> QED BY <3>13, <4>1, <4>5
    <3>16. Leads((u \o v) \o s, x, a, Gave(a, (n + m) + k))
      <4>1. Leads(u \o v, x, a, Gave(a, n + m))
        BY <3>9, <3>11, <3>14, LeadsOn
      <4> QED BY <3>8, <3>9, <3>15, <4>1, LeadsOn
    <3>17. release_access_once[y] = (u \o v) \o s
      BY <3>1, <3>3, <3>4, <3>5, release_access_onceIs
    <3> QED BY <3>7, <3>16, <3>17
  <2> QED BY <2>1, <2>2
<1>2. Nodes \subseteq G
  <2> HIDE DEF G
  <2> QED BY <1>1, ConstantsAre, GroundedInduction
<1> QED BY <1>2

\* release_access of x gives one level of x back, however x is held.
LEMMA OwnReleaseLeads ==
  ASSUME NEW x \in Posets, NEW a \in LocalState, NEW b \in LocalState, Releases(a, b)
  PROVE  Leads(release_access_once[x], x, a, b)
<1>1. PICK s : s = <<<<"release", x>>>>
  OBVIOUS
<1>2. PICK u : u = IF x = Namespace THEN release_access_once[Primitives] ELSE << >>
  OBVIOUS
<1>3. PICK v : v = release_access_once[SchemaOf[x]]
  OBVIOUS
<1>4. s \in Seq(Steps) /\ Len(s) = 1 /\ s[1][1] = "release" /\ s[1][2] = x
  BY <1>1, OneStep DEF Ops
<1>5. v \in Seq(Steps) /\ u \in Seq(Steps) /\ u \o v \in Seq(Steps)
  BY <1>2, <1>3, ConstantsAre, release_access_onceIs, ConcatProperties
<1>6. Leads(u, x, a, a)
  <2>1. CASE x = Namespace
    BY <1>2, <2>1, ConstantsAre, OnceInItsChain, NoneLeads
  <2>2. CASE x # Namespace
    BY <1>2, <2>2, LeadsNowhere
  <2> QED BY <2>1, <2>2
<1>7. Leads(v, x, a, a)
  BY <1>3, ConstantsAre, OnceInItsChain, NoneLeads
<1>8. Leads(s, x, a, b)
  <2>1. Goes(s[1], x, a, b)
    BY <1>4 DEF Goes, Moves
  <2> QED BY <1>4, <2>1, LeadsOne
<1>9. Leads((u \o v) \o s, x, a, b)
  BY <1>4, <1>5, <1>6, <1>7, <1>8, LeadsOn
<1> QED BY <1>1, <1>2, <1>3, <1>9, release_access_onceIs

\* The tail after a sequence of one element.
LEMMA TailConcat ==
  ASSUME NEW S, NEW s \in Seq(S), NEW t \in Seq(S), Len(s) = 1
  PROVE  Tail(s \o t) = t
<1>1. PICK u : u = s \o t
  OBVIOUS
<1>2. u \in Seq(S) /\ Len(u) = 1 + Len(t) /\ \A i \in 1..Len(u) : u[i] = IF i <= 1 THEN s[i] ELSE t[i - 1]
  <2>1. /\ u \in Seq(S) /\ Len(u) = Len(s) + Len(t)
        /\ \A i \in 1..Len(s) + Len(t) : u[i] = IF i <= Len(s) THEN s[i] ELSE t[i - Len(s)]
    BY <1>1, ConcatProperties
  <2> QED BY <2>1
<1>3. Len(t) \in Nat /\ \A i \in 1..Len(t) : u[i + 1] = t[i]
  <2>1. Len(t) \in Nat
    OBVIOUS
  <2>2. ASSUME NEW i \in 1..Len(t) PROVE u[i + 1] = t[i]
    <3>1. i + 1 \in 1..Len(u) /\ ~(i + 1 <= 1) /\ (i + 1) - 1 = i
      BY <1>2, <2>1
    <3> QED BY <1>2, <3>1
  <2> QED BY <2>1, <2>2
<1>4. Tail(u) \in Seq(S) /\ Len(Tail(u)) = Len(t) /\ \A i \in 1..Len(t) : Tail(u)[i] = t[i]
  BY <1>2, <1>3
<1> QED BY <1>1, <1>4, SeqEqual

\* get_read_write_access of x writes x and takes levels of what x needs.
LEMMA WriteLeads ==
  ASSUME NEW x \in Posets, NEW z \in Posets, NEW a \in LocalState
  PROVE  /\ get_read_write_access(x) \in Seq(Steps)
         /\ z # x => Leads(get_read_write_access(x), z, a, Got(a, Occurrences(z, x)))
         /\ z = x => Leads(get_read_write_access(x), x, a, Wrote(a))
<1>1. PICK s : s = <<<<"read", x>>>>
  OBVIOUS
<1>2. PICK w : w = <<<<"write", x>>>>
  OBVIOUS
<1>3. PICK u : u = IF x = Namespace THEN get_read_access[Primitives] ELSE << >>
  OBVIOUS
<1>4. PICK v : v = get_read_access[SchemaOf[x]]
  OBVIOUS
<1>5. /\ s \in Seq(Steps) /\ Len(s) = 1
      /\ w \in Seq(Steps) /\ Len(w) = 1 /\ w[1][1] = "write" /\ w[1][2] = x
  BY <1>1, <1>2, OneStep DEF Ops
<1>6. SchemaOf[x] \in Nodes /\ Primitives \in Nodes
  BY ConstantsAre
<1>7. v \in Seq(Steps) /\ u \in Seq(Steps) /\ v \o u \in Seq(Steps) /\ w \o (v \o u) \in Seq(Steps)
  <2>1. << >> \in Seq(Steps)
    OBVIOUS
  <2> QED BY <1>3, <1>4, <1>5, <1>6, <2>1, get_read_accessIs, ConcatProperties
<1>8. get_read_access[x] = s \o (v \o u)
  <2>1. get_read_access[x] = (s \o v) \o u
    BY <1>1, <1>3, <1>4, get_read_accessIs
  <2>2. (s \o v) \o u = s \o (v \o u)
    BY <1>5, <1>7, ConcatAssociative
  <2> QED BY <2>1, <2>2
<1>9. get_read_write_access(x) = w \o (v \o u)
  BY <1>2, <1>5, <1>7, <1>8, TailConcat DEF get_read_write_access
<1>10. PICK m, n : /\ m = Occurrences(z, SchemaOf[x])
                   /\ n = IF x = Namespace THEN Occurrences(z, Primitives) ELSE 0
  OBVIOUS
<1>11. m \in Nat /\ n \in Nat
  BY <1>6, <1>10, OccurrencesAre
<1>12. ASSUME NEW c \in LocalState PROVE Leads(v \o u, z, c, Got(c, m + n))
  <2>1. Leads(v, z, c, Got(c, m))
    BY <1>4, <1>6, <1>10, GetLeads
  <2>2. Got(c, m) \in LocalState /\ Got(Got(c, m), n) = Got(c, m + n)
    BY <1>11, LevelsAdd
  <2>3. Leads(u, z, Got(c, m), Got(c, m + n))
    <3>1. CASE x = Namespace
      BY <1>3, <1>6, <1>10, <2>2, <3>1, GetLeads
    <3>2. CASE x # Namespace
      BY <1>3, <1>10, <1>11, <2>2, <3>2, LevelsAdd, LeadsNowhere
    <3> QED BY <3>1, <3>2
  <2> QED BY <1>7, <2>1, <2>3, LeadsOn
<1>13. ASSUME z # x PROVE Leads(get_read_write_access(x), z, a, Got(a, Occurrences(z, x)))
  <2>1. Leads(w, z, a, a)
    BY <1>5, <1>13, LeadsOne DEF Goes
  <2>2. Occurrences(z, x) = m + n
    BY <1>10, <1>11, <1>13, OccurrencesAre
  <2> QED BY <1>5, <1>7, <1>9, <1>12, <2>1, <2>2, LeadsOn
<1>14. ASSUME z = x PROVE Leads(get_read_write_access(x), x, a, Wrote(a))
  <2>1. Wrote(a) \in LocalState
    BY LevelsAdd
  <2>2. Goes(w[1], x, a, Wrote(a))
    BY <1>5, LocalIs DEF Goes, Moves, Wrote
  <2>3. Leads(w, x, a, Wrote(a))
    BY <1>5, <2>1, <2>2, LeadsOne
  <2>4. m + n = 0
    BY <1>10, <1>14, OnceInItsChain
  <2>5. Leads(v \o u, x, Wrote(a), Wrote(a))
    BY <1>12, <1>14, <2>1, <2>4, LevelsAdd
  <2> QED BY <1>5, <1>7, <1>9, <2>3, <2>5, LeadsOn
<1> QED BY <1>7, <1>9, <1>13, <1>14

(***************************************************************************)
(* What a thread has of a poset between calls, told from what it asked of  *)
(* the poset and has to release (br), and from the levels of access (n)    *)
(* which that and the posets that depend on it add up to.                  *)
(***************************************************************************)
Kinds == {"read", "write", "edit", "inner_edit"}
\* The thread does not write the poset.
AllRead(br) == \A i \in 1..Len(br) : br[i] = "read"
\* The levels that brackets on a poset take of it.
OwnOf(br) == HowMany({"read", "write", "edit"}, br)
\* The edits that brackets on a poset ask for.
EditsOf(br) == HowMany({"edit", "inner_edit"}, br)

\* The write brackets begin after s read brackets.
Upgraded(br, s) ==
  /\ s < Len(br) /\ br[s + 1] \in {"write", "edit"}
  /\ \A i \in 1..s : br[i] = "read"

\* a is what brackets br, and n levels in all, leave of a poset.
Settles(br, n, a) ==
  /\ a \in LocalState /\ a.depth = n /\ a.edits = EditsOf(br)
  /\ AllRead(br) => a.switch = 0 /\ a.mode = IF n = 0 THEN "none" ELSE "read"
  /\ ~AllRead(br) => a.mode = "write" /\ n = OwnOf(br) /\ Upgraded(br, a.switch)

\* As many as the first m are in the set.
LEMMA HowManyAtLeast ==
  ASSUME NEW S, NEW s \in Seq(S), NEW K, NEW m \in Nat, m <= Len(s), \A i \in 1..m : s[i] \in K
  PROVE  m <= HowMany(K, s)
<1>1. DOMAIN s = 1..Len(s) /\ Len(s) \in Nat
  OBVIOUS
<1>2. PICK T : T = {i \in DOMAIN s : s[i] \in K}
  OBVIOUS
<1>3. 1..m \subseteq T
  BY <1>1, <1>2
<1>4. IsFiniteSet(T)
  BY <1>2, HowManyType
<1>5. Cardinality(1..m) = m
  BY FS_Interval
<1> QED BY <1>2, <1>3, <1>4, <1>5, FS_Subset DEF HowMany

\* What the counts are of no brackets, and of read brackets.
LEMMA CountsAre ==
  ASSUME NEW br \in Seq(Kinds)
  PROVE  /\ OwnOf(br) \in Nat /\ EditsOf(br) \in Nat
         /\ AllRead(br) => OwnOf(br) = Len(br) /\ EditsOf(br) = 0
         /\ \A s \in Nat : Upgraded(br, s) => s < OwnOf(br) /\ ~AllRead(br)
         /\ br = << >> => AllRead(br) /\ OwnOf(br) = 0
<1> DEFINE L == {"read", "write", "edit"}
           E == {"edit", "inner_edit"}
<1> HIDE DEF L, E
<1>1. OwnOf(br) = HowMany(L, br) /\ EditsOf(br) = HowMany(E, br) /\ Len(br) \in Nat
  BY DEF OwnOf, EditsOf, L, E
<1>2. OwnOf(br) \in Nat /\ EditsOf(br) \in Nat
  <2>1. HowMany(L, br) \in Nat /\ HowMany(E, br) \in Nat
    BY HowManyType
  <2> QED BY <1>1, <2>1
<1>3. ASSUME AllRead(br) PROVE OwnOf(br) = Len(br) /\ EditsOf(br) = 0
  <2>1. \A i \in 1..Len(br) : br[i] \in L /\ br[i] \notin E
    BY <1>3 DEF AllRead, L, E
  <2> QED BY <1>1, <2>1, HowManyAll, HowManyType
<1>4. ASSUME NEW s \in Nat, Upgraded(br, s) PROVE s < OwnOf(br) /\ ~AllRead(br)
  <2>1. s + 1 \in Nat /\ s + 1 <= Len(br) /\ s + 1 \in 1..Len(br)
    BY <1>1, <1>4 DEF Upgraded
  <2>2. \A i \in 1..s + 1 : br[i] \in L
    <3>1. \A i \in 1..s + 1 : i \in 1..s \/ i = s + 1
      OBVIOUS
    <3> QED BY <1>4, <3>1 DEF Upgraded, L
  <2>3. s + 1 <= OwnOf(br)
    BY <1>1, <2>1, <2>2, HowManyAtLeast
  <2>4. br[s + 1] # "read"
    BY <1>4 DEF Upgraded
  <2> QED BY <1>2, <2>1, <2>3, <2>4 DEF AllRead
<1>5. br = << >> => AllRead(br) /\ OwnOf(br) = 0
  <2>1. br = << >> => AllRead(br) /\ Len(br) = 0
    BY DEF AllRead
  <2> QED BY <1>3, <2>1
<1> QED BY <1>2, <1>3, <1>4, <1>5

\* One bracket more.
LEMMA AppendCounts ==
  ASSUME NEW f \in Seq(Kinds), NEW k \in Kinds
  PROVE  /\ Append(f, k) \in Seq(Kinds)
         /\ AllRead(Append(f, k)) <=> AllRead(f) /\ k = "read"
         /\ OwnOf(Append(f, k)) = OwnOf(f) + IF k = "inner_edit" THEN 0 ELSE 1
         /\ EditsOf(Append(f, k)) = EditsOf(f) + IF k \in {"edit", "inner_edit"} THEN 1 ELSE 0
         /\ \A s \in Nat : Upgraded(Append(f, k), s) <=>
              \/ Upgraded(f, s)
              \/ AllRead(f) /\ s = Len(f) /\ k \in {"write", "edit"}
<1>1. PICK g : g = Append(f, k)
  OBVIOUS
<1>2. /\ g \in Seq(Kinds) /\ Len(g) = Len(f) + 1 /\ Len(f) \in Nat
      /\ g[Len(f) + 1] = k /\ \A i \in 1..Len(f) : g[i] = f[i]
  BY <1>1
<1>3. AllRead(g) <=> AllRead(f) /\ k = "read"
  <2>1. \A i \in 1..Len(g) : i \in 1..Len(f) \/ i = Len(f) + 1
    BY <1>2
  <2>2. Len(f) + 1 \in 1..Len(g) /\ \A i \in 1..Len(f) : i \in 1..Len(g)
    BY <1>2
  <2> QED BY <1>2, <2>1, <2>2 DEF AllRead
<1>4. OwnOf(g) = OwnOf(f) + IF k = "inner_edit" THEN 0 ELSE 1
  <2>1. k \in {"read", "write", "edit"} <=> k # "inner_edit"
    BY DEF Kinds
  <2>2. HowMany({"read", "write", "edit"}, g) = HowMany({"read", "write", "edit"}, f)
           + IF k \in {"read", "write", "edit"} THEN 1 ELSE 0
    BY <1>1, HowManyAppend
  <2> QED BY <2>1, <2>2 DEF OwnOf
<1>5. EditsOf(g) = EditsOf(f) + IF k \in {"edit", "inner_edit"} THEN 1 ELSE 0
  BY <1>1, HowManyAppend DEF EditsOf
<1>6. ASSUME NEW s \in Nat
      PROVE  Upgraded(g, s) <=> Upgraded(f, s) \/ (AllRead(f) /\ s = Len(f) /\ k \in {"write", "edit"})
  <2>1. CASE s < Len(f)
    <3>1. s + 1 \in 1..Len(f) /\ s < Len(g) /\ \A i \in 1..s : i \in 1..Len(f)
      BY <1>2, <2>1
    <3>2. s # Len(f)
      BY <1>2, <2>1
    <3> QED BY <1>2, <2>1, <3>1, <3>2 DEF Upgraded
  <2>2. CASE s = Len(f)
    <3>1. ~(s < Len(f)) /\ s < Len(g)
      BY <1>2, <2>2
    <3> QED BY <1>2, <2>2, <3>1 DEF Upgraded, AllRead
  <2>3. CASE ~(s < Len(f)) /\ s # Len(f)
    <3>1. ~(s < Len(g))
      BY <1>2, <2>3
    <3> QED BY <2>3, <3>1 DEF Upgraded
  <2> QED BY <2>1, <2>2, <2>3
<1> QED BY <1>1, <1>2, <1>3, <1>4, <1>5, <1>6

\* A sequence is its front and its last element.
LEMMA FrontIs ==
  ASSUME NEW S, NEW s \in Seq(S), s # << >>
  PROVE  Front(s) \in Seq(S) /\ Last(s) \in S /\ s = Append(Front(s), Last(s))
<1>1. Len(s) \in Nat \ {0}
  OBVIOUS
<1>2. PICK f : f = SubSeq(s, 1, Len(s) - 1)
  OBVIOUS
<1>3. f \in Seq(S) /\ Len(f) = Len(s) - 1 /\ \A i \in 1..Len(f) : f[i] = s[i]
  <2>1. PICK n : n = Len(s) - 1
    OBVIOUS
  <2>2. n \in Nat /\ 1 \in 1..Len(s) + 1 /\ n \in 1 - 1..Len(s) /\ n + 1 - 1 = n
        /\ \A i \in 1..n : i \in 1..(n + 1 - 1) /\ 1 + i - 1 = i
    BY <1>1, <2>1
  <2>3. /\ SubSeq(s, 1, n) \in Seq(S) /\ Len(SubSeq(s, 1, n)) = IF 1 <= n THEN n - 1 + 1 ELSE 0
        /\ \A i \in 1..n - 1 + 1 : SubSeq(s, 1, n)[i] = s[1 + i - 1]
    BY <2>2, SubSeqProperties
  <2> QED BY <1>2, <2>1, <2>2, <2>3
<1>4. s[Len(s)] \in S
  BY <1>1
<1>5. PICK g : g = Append(f, s[Len(s)])
  OBVIOUS
<1>6. /\ g \in Seq(S) /\ Len(g) = Len(f) + 1
      /\ g[Len(f) + 1] = s[Len(s)] /\ \A i \in 1..Len(f) : g[i] = f[i]
  BY <1>3, <1>4, <1>5
<1>7. \A i \in 1..Len(g) : g[i] = s[i]
  <2>1. \A i \in 1..Len(g) : i \in 1..Len(f) \/ (i = Len(f) + 1 /\ i = Len(s))
    BY <1>1, <1>3, <1>6
  <2> QED BY <1>3, <1>6, <2>1
<1>8. Len(g) = Len(s)
  BY <1>1, <1>3, <1>6
<1>9. g = s
  BY <1>6, <1>7, <1>8, SeqEqual
<1> QED BY <1>2, <1>3, <1>4, <1>5, <1>9 DEF Front, Last

\* A settled poset the thread does not write.
LEMMA SettledReader ==
  ASSUME NEW br \in Seq(Kinds), NEW n \in Nat, NEW a, Settles(br, n, a), a.mode # "write"
  PROVE  /\ AllRead(br) /\ a \in LocalState /\ a.depth = n /\ a.switch = 0 /\ a.edits = 0
         /\ a.mode = IF n = 0 THEN "none" ELSE "read"
<1>1. AllRead(br)
  BY DEF Settles
<1> QED BY <1>1, CountsAre DEF Settles

\* The access tells the kind of the brackets and whether there are levels.
LEMMA SettledWriter ==
  ASSUME NEW br \in Seq(Kinds), NEW n \in Nat, NEW a, Settles(br, n, a)
  PROVE  /\ a.mode = "write" <=> ~AllRead(br)
         /\ a.mode = "none" <=> n = 0
         /\ a.mode = "write" => a.switch < n /\ a.switch \in Nat
<1>1. a \in LocalState /\ a.switch \in Nat
  BY LocalIs DEF Settles
<1>2. CASE AllRead(br)
  BY <1>2 DEF Settles
<1>3. CASE ~AllRead(br)
  <2>1. a.mode = "write" /\ n = OwnOf(br) /\ Upgraded(br, a.switch)
    BY <1>3 DEF Settles
  <2>2. a.switch < n
    BY <1>1, <2>1, CountsAre
  <2> QED BY <1>1, <1>3, <2>1, <2>2
<1> QED BY <1>2, <1>3

\* Levels of a poset that is not written may be taken for others,
LEMMA MoreLevels ==
  ASSUME NEW br \in Seq(Kinds), NEW n \in Nat, NEW k \in Nat, NEW a, Settles(br, n, a), AllRead(br)
  PROVE  Settles(br, n + k, Got(a, k))
<1>1. a \in LocalState /\ a.depth = n /\ a.edits = EditsOf(br) /\ a.switch = 0
      /\ a.mode = IF n = 0 THEN "none" ELSE "read"
  BY DEF Settles
<1>2. /\ Got(a, k) \in LocalState
      /\ Got(a, k).mode = IF k = 0 \/ a.mode # "none" THEN a.mode ELSE "read"
      /\ Got(a, k).depth = a.depth + k /\ Got(a, k).switch = a.switch /\ Got(a, k).edits = a.edits
  BY <1>1, GotIs
<1>3. Got(a, k).mode = IF n + k = 0 THEN "none" ELSE "read"
  BY <1>1, <1>2
<1> QED BY <1>1, <1>2, <1>3 DEF Settles

\* and given back.
LEMMA FewerLevels ==
  ASSUME NEW br \in Seq(Kinds), NEW n \in Nat, NEW k \in Nat, NEW a, Settles(br, n, a), AllRead(br), k <= n
  PROVE  Settles(br, n - k, Gave(a, k)) /\ a.mode # "write" /\ a \in LocalState /\ a.depth = n
<1>1. a \in LocalState /\ a.depth = n /\ a.edits = EditsOf(br) /\ a.switch = 0
      /\ a.mode = (IF n = 0 THEN "none" ELSE "read") /\ a.mode # "write"
  BY DEF Settles
<1>2. /\ Gave(a, k) \in LocalState
      /\ Gave(a, k).mode = IF k = 0 \/ k < a.depth THEN a.mode ELSE "none"
      /\ Gave(a, k).depth = a.depth - k /\ Gave(a, k).switch = a.switch /\ Gave(a, k).edits = a.edits
  BY <1>1, GaveIs
<1>3. Gave(a, k).mode = IF n - k = 0 THEN "none" ELSE "read"
  BY <1>1, <1>2
<1> QED BY <1>1, <1>2, <1>3 DEF Settles

\* A request to read, by a reader, a writer or a stranger.
LEMMA AsksRead ==
  ASSUME NEW br \in Seq(Kinds), NEW n \in Nat, NEW a, Settles(br, n, a)
  PROVE  Settles(Append(br, "read"), n + 1, Got(a, 1))
<1>1. a \in LocalState /\ a.depth = n /\ a.edits = EditsOf(br) /\ a.switch \in Nat
  BY LocalIs DEF Settles
<1>2. PICK b : b = Got(a, 1)
  OBVIOUS
<1>3. /\ b \in LocalState /\ b.mode = (IF a.mode # "none" THEN a.mode ELSE "read")
      /\ b.depth = n + 1 /\ b.switch = a.switch /\ b.edits = a.edits
  <2>1. /\ Got(a, 1) \in LocalState
        /\ Got(a, 1).mode = IF 1 = 0 \/ a.mode # "none" THEN a.mode ELSE "read"
        /\ Got(a, 1).depth = a.depth + 1 /\ Got(a, 1).switch = a.switch /\ Got(a, 1).edits = a.edits
    BY <1>1, GotIs
  <2> QED BY <1>1, <1>2, <2>1
<1>4. PICK g : g = Append(br, "read")
  OBVIOUS
<1>5. /\ AllRead(g) <=> AllRead(br)
      /\ OwnOf(g) = OwnOf(br) + 1 /\ EditsOf(g) = EditsOf(br) + 0
      /\ Upgraded(g, a.switch) <=> Upgraded(br, a.switch)
  BY <1>1, <1>4, AppendCounts DEF Kinds
<1>6. EditsOf(g) = EditsOf(br)
  BY <1>5, CountsAre
<1>7. CASE AllRead(br)
  <2>1. a.switch = 0 /\ a.mode = IF n = 0 THEN "none" ELSE "read"
    BY <1>7 DEF Settles
  <2>2. b.mode = "read" /\ n + 1 # 0
    BY <1>3, <2>1
  <2>3. Settles(g, n + 1, b)
    BY <1>1, <1>3, <1>5, <1>6, <1>7, <2>1, <2>2 DEF Settles
  <2> QED BY <1>2, <1>4, <2>3
<1>8. CASE ~AllRead(br)
  <2>1. a.mode = "write" /\ n = OwnOf(br) /\ Upgraded(br, a.switch)
    BY <1>8 DEF Settles
  <2>2. Settles(g, n + 1, b)
    BY <1>1, <1>3, <1>5, <1>6, <1>8, <2>1 DEF Settles
  <2> QED BY <1>2, <1>4, <2>2
<1> QED BY <1>7, <1>8

\* A request to write, with an edit mode or without.
LEMMA AsksWrite ==
  ASSUME NEW br \in Seq(Kinds), NEW n \in Nat, NEW a, Settles(br, n, a), n = OwnOf(br),
         NEW k \in {"write", "edit"}, NEW b \in LocalState,
         b.mode = "write", b.depth = n + 1, b.switch = Wrote(a).switch,
         b.edits = a.edits + (IF k = "edit" THEN 1 ELSE 0)
  PROVE  Settles(Append(br, k), n + 1, b)
<1>1. a \in LocalState /\ a.depth = n /\ a.edits = EditsOf(br) /\ a.switch \in Nat
  BY LocalIs DEF Settles
<1>2. b.switch = (IF a.mode = "read" THEN n ELSE a.switch) /\ b.switch \in Nat
  BY <1>1, WroteIs
<1>3. PICK g : g = Append(br, k)
  OBVIOUS
<1>4. /\ ~AllRead(g)
      /\ OwnOf(g) = OwnOf(br) + 1 /\ EditsOf(g) = EditsOf(br) + (IF k = "edit" THEN 1 ELSE 0)
      /\ Upgraded(g, b.switch) <=> Upgraded(br, b.switch) \/ (AllRead(br) /\ b.switch = Len(br))
  <2>1. k \in Kinds /\ k # "read" /\ k # "inner_edit" /\ (k \in {"edit", "inner_edit"} <=> k = "edit")
    BY DEF Kinds
  <2> QED BY <1>2, <1>3, <2>1, AppendCounts
<1>5. CASE AllRead(br)
  <2>1. a.switch = 0 /\ (a.mode = IF n = 0 THEN "none" ELSE "read") /\ n = Len(br)
    BY <1>5, CountsAre DEF Settles
  <2>2. b.switch = Len(br)
    BY <1>2, <2>1
  <2>3. Settles(g, n + 1, b)
    BY <1>1, <1>4, <1>5, <2>2 DEF Settles
  <2> QED BY <1>3, <2>3
<1>6. CASE ~AllRead(br)
  <2>1. a.mode = "write" /\ Upgraded(br, a.switch)
    BY <1>6 DEF Settles
  <2>2. b.switch = a.switch
    BY <1>2, <2>1
  <2>3. Settles(g, n + 1, b)
    BY <1>1, <1>4, <1>6, <2>1, <2>2 DEF Settles
  <2> QED BY <1>3, <2>3
<1> QED BY <1>5, <1>6

\* An edit mode asked for by a writer, without access of its own.
LEMMA AsksInnerEdit ==
  ASSUME NEW br \in Seq(Kinds), NEW n \in Nat, NEW a, Settles(br, n, a), ~AllRead(br),
         NEW b \in LocalState,
         b.mode = a.mode, b.depth = a.depth, b.switch = a.switch, b.edits = a.edits + 1
  PROVE  Settles(Append(br, "inner_edit"), n, b)
<1>1. /\ a \in LocalState /\ a.depth = n /\ a.edits = EditsOf(br) /\ a.switch \in Nat
      /\ a.mode = "write" /\ n = OwnOf(br) /\ Upgraded(br, a.switch)
  BY LocalIs DEF Settles
<1>2. PICK g : g = Append(br, "inner_edit")
  OBVIOUS
<1>3. /\ ~AllRead(g)
      /\ OwnOf(g) = OwnOf(br) + 0 /\ EditsOf(g) = EditsOf(br) + 1
      /\ Upgraded(g, a.switch) <=> Upgraded(br, a.switch)
  BY <1>1, <1>2, AppendCounts DEF Kinds
<1>4. OwnOf(g) = OwnOf(br)
  BY <1>3, CountsAre
<1>5. Settles(g, n, b)
  BY <1>1, <1>3, <1>4 DEF Settles
<1> QED BY <1>2, <1>5

\* The last request is released, after the edit mode if it had one (c).
LEMMA ReleasesLast ==
  ASSUME NEW f \in Seq(Kinds), NEW k \in {"read", "write", "edit"}, NEW n \in Nat,
         NEW a, Settles(Append(f, k), n, a), n > 0,
         NEW c \in LocalState,
         c.mode = a.mode, c.depth = a.depth, c.switch = a.switch,
         c.edits = a.edits - (IF k = "edit" THEN 1 ELSE 0)
  PROVE  \E b \in LocalState : Releases(c, b) /\ Settles(f, n - 1, b)
<1>1. PICK g : g = Append(f, k)
  OBVIOUS
<1>2. /\ g \in Seq(Kinds) /\ (AllRead(g) <=> AllRead(f) /\ k = "read")
      /\ OwnOf(g) = OwnOf(f) + 1 /\ EditsOf(g) = EditsOf(f) + (IF k = "edit" THEN 1 ELSE 0)
      /\ \A s \in Nat : Upgraded(g, s) <=>
           Upgraded(f, s) \/ (AllRead(f) /\ s = Len(f) /\ k \in {"write", "edit"})
  <2>1. k \in Kinds /\ k # "inner_edit" /\ (k \in {"edit", "inner_edit"} <=> k = "edit")
    BY DEF Kinds
  <2> QED BY <1>1, <2>1, AppendCounts
<1>3. /\ a \in LocalState /\ a.depth = n /\ a.edits = EditsOf(g) /\ a.switch \in Nat
      /\ AllRead(g) => a.switch = 0 /\ a.mode = IF n = 0 THEN "none" ELSE "read"
      /\ ~AllRead(g) => a.mode = "write" /\ n = OwnOf(g) /\ Upgraded(g, a.switch)
  BY <1>1, LocalIs DEF Settles
<1>4. /\ EditsOf(f) \in Nat /\ OwnOf(f) \in Nat /\ c.edits = EditsOf(f) /\ Len(f) \in Nat
      /\ AllRead(f) => OwnOf(f) = Len(f) /\ EditsOf(f) = 0
      /\ \A s \in Nat : Upgraded(f, s) => s < OwnOf(f) /\ ~AllRead(f)
  <2>1. /\ EditsOf(f) \in Nat /\ OwnOf(f) \in Nat /\ Len(f) \in Nat
        /\ AllRead(f) => OwnOf(f) = Len(f) /\ EditsOf(f) = 0
        /\ \A s \in Nat : Upgraded(f, s) => s < OwnOf(f) /\ ~AllRead(f)
    BY CountsAre
  <2> QED BY <1>2, <1>3, <2>1
<1>5. CASE AllRead(g)
  <2>1. PICK m : m = IF n - 1 = 0 THEN "none" ELSE "read"
    OBVIOUS
  <2>2. PICK b : b = At(m, n - 1, 0, 0)
    OBVIOUS
  <2>3. b \in LocalState
    <3>1. m \in {"none", "read", "write"} /\ n - 1 \in Nat
      BY <2>1
    <3> QED BY <2>2, <3>1, LocalIs
  <2>4. b.mode = m /\ b.depth = n - 1 /\ b.switch = 0 /\ b.edits = 0
    BY <2>2 DEF At
  <2>5. AllRead(f) /\ a.mode = "read" /\ a.switch = 0
    BY <1>2, <1>3, <1>5
  <2>6. Releases(c, b)
    BY <1>3, <1>4, <2>1, <2>4, <2>5 DEF Releases
  <2>7. Settles(f, n - 1, b)
    BY <1>4, <2>1, <2>3, <2>4, <2>5 DEF Settles
  <2> QED BY <2>3, <2>6, <2>7
<1>6. CASE ~AllRead(g) /\ Upgraded(f, a.switch)
  <2>1. /\ a.mode = "write" /\ n = OwnOf(f) + 1 /\ a.switch < OwnOf(f) /\ ~AllRead(f)
    BY <1>2, <1>3, <1>4, <1>6
  <2>2. PICK b : b = At("write", n - 1, a.switch, c.edits)
    OBVIOUS
  <2>3. b \in LocalState
    <3>1. n - 1 \in Nat /\ c.edits \in Nat
      BY <1>4
    <3> QED BY <1>3, <2>2, <3>1, LocalIs
  <2>4. b.mode = "write" /\ b.depth = n - 1 /\ b.switch = a.switch /\ b.edits = c.edits
    BY <2>2 DEF At
  <2>5. n - 1 # 0 /\ n - 1 # a.switch /\ n - 1 = OwnOf(f)
    BY <1>3, <1>4, <2>1
  <2>6. Releases(c, b)
    BY <1>3, <2>1, <2>4, <2>5 DEF Releases
  <2>7. Settles(f, n - 1, b)
    BY <1>4, <1>6, <2>1, <2>3, <2>4, <2>5 DEF Settles
  <2> QED BY <2>3, <2>6, <2>7
<1>7. CASE ~AllRead(g) /\ ~Upgraded(f, a.switch)
  <2>1. /\ a.mode = "write" /\ AllRead(f) /\ a.switch = Len(f) /\ n = Len(f) + 1 /\ EditsOf(f) = 0
    BY <1>2, <1>3, <1>4, <1>7
  <2>2. PICK m : m = IF n - 1 = 0 THEN "none" ELSE "read"
    OBVIOUS
  <2>3. PICK b : b = At(m, n - 1, 0, 0)
    OBVIOUS
  <2>4. b \in LocalState
    <3>1. m \in {"none", "read", "write"} /\ n - 1 \in Nat
      BY <2>2
    <3> QED BY <2>3, <3>1, LocalIs
  <2>5. b.mode = m /\ b.depth = n - 1 /\ b.switch = 0 /\ b.edits = 0
    BY <2>3 DEF At
  <2>6. n - 1 = a.switch
    BY <1>4, <2>1
  <2>7. Releases(c, b)
    BY <1>3, <1>4, <2>1, <2>2, <2>5, <2>6 DEF Releases
  <2>8. Settles(f, n - 1, b)
    BY <1>4, <2>1, <2>2, <2>4, <2>5 DEF Settles
  <2> QED BY <2>4, <2>7, <2>8
<1> QED BY <1>5, <1>6, <1>7

\* An edit mode without access of its own ends.
LEMMA EndsInnerEdit ==
  ASSUME NEW f \in Seq(Kinds), NEW n \in Nat, NEW a, Settles(Append(f, "inner_edit"), n, a),
         NEW b \in LocalState,
         b.mode = a.mode, b.depth = a.depth, b.switch = a.switch, b.edits = a.edits - 1
  PROVE  Settles(f, n, b) /\ a.mode = "write"
<1>1. PICK g : g = Append(f, "inner_edit")
  OBVIOUS
<1>2. /\ ~AllRead(g) /\ OwnOf(g) = OwnOf(f) + 0 /\ EditsOf(g) = EditsOf(f) + 1
      /\ \A s \in Nat : Upgraded(g, s) <=> Upgraded(f, s)
  BY <1>1, AppendCounts DEF Kinds
<1>3. /\ a \in LocalState /\ a.depth = n /\ a.edits = EditsOf(g) /\ a.switch \in Nat
      /\ a.mode = "write" /\ n = OwnOf(g) /\ Upgraded(g, a.switch)
  BY <1>1, <1>2, LocalIs DEF Settles
<1>4. OwnOf(f) \in Nat /\ EditsOf(f) \in Nat /\ Upgraded(f, a.switch) /\ ~AllRead(f)
  BY <1>2, <1>3, CountsAre
<1>5. Settles(f, n, b)
  BY <1>2, <1>3, <1>4 DEF Settles
<1> QED BY <1>3, <1>5

\* What is asked for and released at once leaves the poset as it was.
LEMMA Undoes ==
  ASSUME NEW br \in Seq(Kinds), NEW n \in Nat, NEW a, Settles(br, n, a)
  PROVE  Releases(Wrote(a), a) /\ Releases(Got(a, 1), a)
<1>1. /\ a \in LocalState /\ a.depth = n /\ a.switch \in Nat /\ a.mode \in {"none", "read", "write"}
      /\ a.edits \in Nat /\ (a.mode # "write" => a.edits = 0)
  BY LocalIs DEF Settles
<1>2. /\ a.mode = "write" => a.switch < n
      /\ a.mode = "none" <=> n = 0
      /\ a.mode # "write" => a.switch = 0
  BY SettledReader, SettledWriter
<1>3. Releases(Wrote(a), a)
  <2>1. PICK b : b = Wrote(a)
    OBVIOUS
  <2>2. /\ b \in LocalState /\ b.mode = "write" /\ b.depth = n + 1
         /\ b.switch = (IF a.mode = "read" THEN n ELSE a.switch) /\ b.edits = a.edits
    BY <1>1, <2>1, WroteIs
  <2>3. Releases(b, a)
    BY <1>1, <1>2, <2>2 DEF Releases
  <2> QED BY <2>1, <2>3
<1>4. Releases(Got(a, 1), a)
  <2>1. PICK b : b = Got(a, 1)
    OBVIOUS
  <2>2. /\ b \in LocalState /\ b.mode = (IF a.mode # "none" THEN a.mode ELSE "read")
        /\ b.depth = n + 1 /\ b.switch = a.switch /\ b.edits = a.edits
    <3>1. /\ Got(a, 1) \in LocalState
          /\ Got(a, 1).mode = IF 1 = 0 \/ a.mode # "none" THEN a.mode ELSE "read"
          /\ Got(a, 1).depth = a.depth + 1 /\ Got(a, 1).switch = a.switch /\ Got(a, 1).edits = a.edits
      BY <1>1, GotIs
    <3> QED BY <1>1, <2>1, <3>1
  <2>3. Releases(b, a)
    BY <1>1, <1>2, <2>2 DEF Releases
  <2> QED BY <2>1, <2>3
<1> QED BY <1>3, <1>4

(***************************************************************************)
(* Steps that leave a poset as it is, and steps that carry it from one     *)
(* number of levels of access to another.                                  *)
(***************************************************************************)
Spares(s, z) == \A a \in LocalState : Leads(s, z, a, a)

\* The steps take z, with the same brackets, from n levels to m.
Carries(s, z, br, n, m) ==
  \A a : Settles(br, n, a) => \E b : Leads(s, z, a, b) /\ Settles(br, m, b)

\* A call made of n equal parts.
LEMMA TimesLeads ==
  ASSUME NEW s \in Seq(Steps), NEW x, NEW n \in Nat, NEW st \in [0..n -> LocalState],
         \A i \in 1..n : Leads(s, x, st[i - 1], st[i])
  PROVE  Times(n, s) \in Seq(Steps) /\ Leads(Times(n, s), x, st[0], st[n])
<1>0. PICK p : Repeats(p, Steps, s)
  BY FlattenSame
<1>1. /\ p \in [Nat -> Seq(Steps)] /\ p[0] = << >> /\ \A k \in Nat : p[k + 1] = p[k] \o s
      /\ \A k \in Nat : Times(k, s) = p[k]
  BY <1>0 DEF Repeats, Times
<1> DEFINE G == {k \in Nat : k <= n => Leads(p[k], x, st[0], st[k])}
<1>2. 0 \in G
  <2>1. st[0] \in LocalState
    OBVIOUS
  <2> QED BY <1>1, <2>1, LeadsNowhere
<1>3. ASSUME NEW k \in Nat, k \in G PROVE k + 1 \in G
  <2> SUFFICES ASSUME k + 1 <= n PROVE Leads(p[k + 1], x, st[0], st[k + 1])
    OBVIOUS
  <2>1. k <= n /\ k + 1 \in 1..n /\ (k + 1) - 1 = k
    OBVIOUS
  <2>2. Leads(p[k], x, st[0], st[k]) /\ Leads(s, x, st[k], st[k + 1])
    BY <1>3, <2>1
  <2>3. Leads(p[k] \o s, x, st[0], st[k + 1])
    BY <1>1, <2>2, LeadsOn
  <2> QED BY <1>1, <2>3
<1>4. n \in G
  <2> HIDE DEF G
  <2> QED BY <1>2, <1>3, EveryNat
<1> QED BY <1>1, <1>4

\* Two sequences that spare z.
LEMMA SparesConcat ==
  ASSUME NEW s \in Seq(Steps), NEW t \in Seq(Steps), NEW z, Spares(s, z), Spares(t, z)
  PROVE  s \o t \in Seq(Steps) /\ Spares(s \o t, z)
<1>1. s \o t \in Seq(Steps)
  BY ConcatProperties
<1>2. ASSUME NEW a \in LocalState PROVE Leads(s \o t, z, a, a)
  BY LeadsOn DEF Spares
<1> QED BY <1>1, <1>2 DEF Spares

\* A step on another poset, or an insertion in the namespace.
LEMMA SparesStep ==
  ASSUME NEW op \in Ops, NEW y \in Posets, NEW z \in Posets, y # z \/ op = "insert"
  PROVE  <<<<op, y>>>> \in Seq(Steps) /\ Spares(<<<<op, y>>>>, z)
<1>1. PICK s : s = <<<<op, y>>>>
  OBVIOUS
<1>2. s \in Seq(Steps) /\ Len(s) = 1 /\ s[1][1] = op /\ s[1][2] = y
  BY <1>1, OneStep
<1>3. ASSUME NEW a \in LocalState PROVE Leads(s, z, a, a)
  <2>1. Goes(s[1], z, a, a)
    BY <1>2 DEF Goes, Moves
  <2> QED BY <1>2, <2>1, LeadsOne
<1> QED BY <1>1, <1>2, <1>3 DEF Spares

\* Access to y leaves alone what y does not need.
LEMMA SparesCalls ==
  ASSUME NEW y \in Nodes, NEW z \in Posets, Occurrences(z, y) = 0
  PROVE  /\ get_read_access[y] \in Seq(Steps) /\ Spares(get_read_access[y], z)
         /\ release_access_once[y] \in Seq(Steps) /\ Spares(release_access_once[y], z)
<1>1. get_read_access[y] \in Seq(Steps) /\ release_access_once[y] \in Seq(Steps)
  BY get_read_accessIs, release_access_onceIs
<1>2. ASSUME NEW a \in LocalState PROVE Leads(get_read_access[y], z, a, a)
  BY GetLeads, LevelsAdd
<1>3. ASSUME NEW a \in LocalState PROVE Leads(release_access_once[y], z, a, a)
  BY NoneLeads
<1> QED BY <1>1, <1>2, <1>3 DEF Spares

\* So does access to write y,
LEMMA SparesWrite ==
  ASSUME NEW y \in Posets, NEW z \in Posets, Occurrences(z, y) = 0
  PROVE  get_read_write_access(y) \in Seq(Steps) /\ Spares(get_read_write_access(y), z)
<1>1. z # y
  BY OnceInItsChain
<1>2. ASSUME NEW a \in LocalState PROVE Leads(get_read_write_access(y), z, a, a)
  BY <1>1, WriteLeads, LevelsAdd
<1>3. get_read_write_access(y) \in Seq(Steps)
  <2>1. PICK a : a = At("none", 0, 0, 0)
    OBVIOUS
  <2>2. a \in LocalState
    BY <2>1, LocalIs
  <2> QED BY <2>2, WriteLeads
<1> QED BY <1>2, <1>3 DEF Spares

\* and what is done over and over.
LEMMA SparesTimes ==
  ASSUME NEW s \in Seq(Steps), NEW z, Spares(s, z), NEW n \in Nat
  PROVE  Times(n, s) \in Seq(Steps) /\ Spares(Times(n, s), z)
<1>1. ASSUME NEW a \in LocalState PROVE Times(n, s) \in Seq(Steps) /\ Leads(Times(n, s), z, a, a)
  <2>1. PICK st : st = [i \in 0..n |-> a]
    OBVIOUS
  <2>2. st \in [0..n -> LocalState] /\ st[0] = a /\ st[n] = a
    BY <2>1
  <2>3. ASSUME NEW i \in 1..n PROVE Leads(s, z, st[i - 1], st[i])
    <3>1. i \in 0..n /\ i - 1 \in 0..n
      OBVIOUS
    <3>2. Leads(s, z, a, a)
      BY DEF Spares
    <3> QED BY <2>1, <3>1, <3>2
  <2> QED BY <2>2, <2>3, TimesLeads
<1>2. At("none", 0, 0, 0) \in LocalState
  BY LocalIs
<1> QED BY <1>1, <1>2 DEF Spares

\* Two sequences that carry z.
LEMMA CarriesConcat ==
  ASSUME NEW s \in Seq(Steps), NEW t \in Seq(Steps), NEW z, NEW br, NEW n, NEW m, NEW k,
         Carries(s, z, br, n, m), Carries(t, z, br, m, k)
  PROVE  Carries(s \o t, z, br, n, k)
<1> SUFFICES ASSUME NEW a, Settles(br, n, a)
             PROVE  \E b : Leads(s \o t, z, a, b) /\ Settles(br, k, b)
  BY DEF Carries
<1>1. PICK b : Leads(s, z, a, b) /\ Settles(br, m, b)
  BY DEF Carries
<1>2. PICK c : Leads(t, z, b, c) /\ Settles(br, k, c)
  BY <1>1 DEF Carries
<1> QED BY <1>1, <1>2, LeadsOn

\* What is spared is carried to the same levels.
LEMMA CarriesSpared ==
  ASSUME NEW s, NEW z, Spares(s, z), NEW br, NEW n
  PROVE  Carries(s, z, br, n, n)
<1> SUFFICES ASSUME NEW a, Settles(br, n, a)
             PROVE  Leads(s, z, a, a)
  BY DEF Carries
<1> QED BY DEF Settles, Spares

\* A request for y takes a level of z for every occurrence of z, if z is not written.
LEMMA CarriesGet ==
  ASSUME NEW y \in Nodes, NEW z \in Posets, NEW br \in Seq(Kinds), NEW n \in Nat,
         AllRead(br) \/ Occurrences(z, y) = 0
  PROVE  /\ get_read_access[y] \in Seq(Steps) /\ Carries(get_read_access[y], z, br, n, n + Occurrences(z, y))
         /\ y \in Posets /\ y # z =>
              /\ get_read_write_access(y) \in Seq(Steps)
              /\ Carries(get_read_write_access(y), z, br, n, n + Occurrences(z, y))
<1>1. PICK k : k = Occurrences(z, y)
  OBVIOUS
<1>2. k \in Nat
  BY <1>1, OccurrencesAre
<1>3. ASSUME NEW a, Settles(br, n, a)
      PROVE  a \in LocalState /\ Settles(br, n + k, Got(a, k))
  <2>1. a \in LocalState
    BY <1>3 DEF Settles
  <2>2. CASE AllRead(br)
    BY <1>2, <1>3, <2>1, <2>2, MoreLevels
  <2>3. CASE k = 0
    BY <1>3, <2>1, <2>3, LevelsAdd
  <2> QED BY <1>1, <2>1, <2>2, <2>3
<1>4. Carries(get_read_access[y], z, br, n, n + k)
  <2> SUFFICES ASSUME NEW a, Settles(br, n, a)
               PROVE  \E b : Leads(get_read_access[y], z, a, b) /\ Settles(br, n + k, b)
    BY DEF Carries
  <2>1. Leads(get_read_access[y], z, a, Got(a, k))
    BY <1>1, <1>3, GetLeads
  <2> QED BY <1>3, <2>1
<1>5. ASSUME y \in Posets, y # z
      PROVE  /\ get_read_write_access(y) \in Seq(Steps)
             /\ Carries(get_read_write_access(y), z, br, n, n + k)
  <2>1. get_read_write_access(y) \in Seq(Steps)
    <3>1. At("none", 0, 0, 0) \in LocalState
      BY LocalIs
    <3> QED BY <1>5, <3>1, WriteLeads
  <2>2. ASSUME NEW a, Settles(br, n, a)
        PROVE  \E b : Leads(get_read_write_access(y), z, a, b) /\ Settles(br, n + k, b)
    <3>1. a \in LocalState /\ Settles(br, n + k, Got(a, k))
      BY <1>3, <2>2
    <3>2. Leads(get_read_write_access(y), z, a, Got(a, k))
      BY <1>1, <1>5, <3>1, WriteLeads
    <3> QED BY <3>1, <3>2
  <2> QED BY <2>1, <2>2 DEF Carries
<1>6. get_read_access[y] \in Seq(Steps)
  BY get_read_accessIs
<1> QED BY <1>1, <1>4, <1>5, <1>6

\* A release of y gives a level of z back for every occurrence.
LEMMA CarriesRelease ==
  ASSUME NEW y \in Nodes, NEW z \in Posets, NEW br \in Seq(Kinds), NEW n \in Nat,
         AllRead(br) \/ Occurrences(z, y) = 0, Occurrences(z, y) <= n
  PROVE  /\ release_access_once[y] \in Seq(Steps)
         /\ Carries(release_access_once[y], z, br, n, n - Occurrences(z, y))
<1>1. PICK k : k = Occurrences(z, y)
  OBVIOUS
<1>2. k \in Nat /\ k <= n
  BY <1>1, OccurrencesAre
<1>3. release_access_once[y] \in Seq(Steps)
  BY release_access_onceIs
<1>4. CASE k = 0
  <2>1. Spares(release_access_once[y], z) /\ n - k = n
    <3>1. Occurrences(z, y) = 0 /\ n - k = n
      BY <1>1, <1>4
    <3>2. Spares(release_access_once[y], z)
      BY <3>1, SparesCalls
    <3> QED BY <3>1, <3>2
  <2>2. Carries(release_access_once[y], z, br, n, n)
    BY <2>1, CarriesSpared
  <2> QED BY <1>1, <1>3, <2>1, <2>2
<1>5. CASE AllRead(br)
  <2> SUFFICES ASSUME NEW a, Settles(br, n, a)
               PROVE  \E b : Leads(release_access_once[y], z, a, b) /\ Settles(br, n - k, b)
    BY <1>1, <1>3 DEF Carries
  <2>1. Settles(br, n - k, Gave(a, k)) /\ a.mode # "write" /\ a \in LocalState /\ a.depth = n
    BY <1>2, <1>5, FewerLevels
  <2>2. Leads(release_access_once[y], z, a, Gave(a, k))
    BY <1>1, <1>2, <2>1, ReleaseLeads
  <2> QED BY <2>1, <2>2
<1> QED BY <1>1, <1>4, <1>5

\* k times the levels of one.
LEMMA CarriesTimes ==
  ASSUME NEW y \in Nodes, NEW z \in Posets, NEW br \in Seq(Kinds), NEW n \in Nat, NEW k \in Nat,
         AllRead(br) \/ Occurrences(z, y) = 0, k * Occurrences(z, y) <= n
  PROVE  /\ Times(k, release_access_once[y]) \in Seq(Steps)
         /\ Carries(Times(k, release_access_once[y]), z, br, n, n - k * Occurrences(z, y))
<1>1. PICK m : m = Occurrences(z, y)
  OBVIOUS
<1>2. PICK s : s = release_access_once[y]
  OBVIOUS
<1>3. m \in Nat /\ s \in Seq(Steps) /\ k * m <= n
  BY <1>1, <1>2, OccurrencesAre, release_access_onceIs
<1>4. CASE m = 0
  <2>1. Spares(s, z)
    BY <1>1, <1>2, <1>4, SparesCalls
  <2>2. k * m = 0 /\ n - 0 = n
    BY <1>4
  <2> QED BY <1>1, <1>2, <1>3, <2>1, <2>2, SparesTimes, CarriesSpared
<1>5. CASE AllRead(br)
  <2>0. PICK p : Repeats(p, Steps, s)
    BY <1>3, FlattenSame
  <2>1. /\ p \in [Nat -> Seq(Steps)] /\ p[0] = << >> /\ \A i \in Nat : p[i + 1] = p[i] \o s
        /\ \A i \in Nat : Times(i, s) = p[i]
    BY <2>0 DEF Repeats, Times
  <2> DEFINE G == {i \in Nat : i * m <= n => Carries(p[i], z, br, n, n - i * m)}
  <2>2. 0 \in G
    <3>1. 0 * m = 0 /\ n - 0 = n
      BY <1>3
    <3>2. Spares(p[0], z)
      BY <2>1, LeadsNowhere DEF Spares
    <3>3. Carries(p[0], z, br, n, n)
      BY <3>2, CarriesSpared
    <3> QED BY <3>1, <3>3
  <2>3. ASSUME NEW i \in Nat, i \in G PROVE i + 1 \in G
    <3> SUFFICES ASSUME (i + 1) * m <= n PROVE Carries(p[i + 1], z, br, n, n - (i + 1) * m)
      OBVIOUS
    <3>1. PICK q : q = i * m
      OBVIOUS
    <3>2. q \in Nat /\ (i + 1) * m = q + m
      BY <1>3, <3>1
    <3>3. q + m <= n /\ q <= n /\ n - q \in Nat /\ m <= n - q /\ (n - q) - m = n - (q + m)
      <4>1. q + m <= n
        BY <3>2
      <4> HIDE DEF G
      <4> QED BY ONLY <1>3, <3>2, <4>1, n \in Nat
    <3>4. Carries(p[i], z, br, n, n - q)
      BY <2>3, <3>1, <3>3
    <3>5. Carries(s, z, br, n - q, (n - q) - m)
      BY <1>1, <1>2, <1>5, <3>3, CarriesRelease
    <3>6. p[i] \in Seq(Steps)
      BY <2>1
    <3>7. Carries(p[i] \o s, z, br, n, (n - q) - m)
      BY <1>3, <3>4, <3>5, <3>6, CarriesConcat
    <3> QED BY <2>1, <3>2, <3>3, <3>7
  <2>4. k \in G
    <3> HIDE DEF G
    <3> QED BY <2>2, <2>3, EveryNat
  <2>5. Times(k, s) = p[k]
    BY <2>1
  <2> QED BY <1>1, <1>2, <1>3, <2>1, <2>4, <2>5
<1> QED BY <1>1, <1>4, <1>5

\* A step that changes the poset.
LEMMA StepLeads ==
  ASSUME NEW op \in Ops, NEW x \in Posets, NEW a \in LocalState, NEW b \in LocalState, Moves(op, a, b)
  PROVE  <<<<op, x>>>> \in Seq(Steps) /\ Leads(<<<<op, x>>>>, x, a, b)
<1>1. PICK s : s = <<<<op, x>>>>
  OBVIOUS
<1>2. s \in Seq(Steps) /\ Len(s) = 1 /\ s[1][1] = op /\ s[1][2] = x
  BY <1>1, OneStep
<1>3. Goes(s[1], x, a, b)
  BY <1>2 DEF Goes
<1> QED BY <1>1, <1>2, <1>3, LeadsOne

(***************************************************************************)
(* A thread between calls: what it asked of each poset, and what it has.   *)
(***************************************************************************)
Brs == [Posets -> Seq(Kinds)]

\* The levels that all brackets of a thread take of x.
LevelsOf(brs, x) == SumFunction([y \in Posets |-> OwnOf(brs[y]) * Occurrences(x, y)])

\* The thread has what its brackets add up to.
SettledIn(brs, la) == \A x \in Posets : Settles(brs[x], LevelsOf(brs, x), la[x])

\* Who writes a poset asked nothing of a poset that depends on it.
Bracketed(brs) == \A x \in Posets : ~AllRead(brs[x]) =>
  x \notin Base /\ \A y \in Posets \ {x} : x \in Chain(y) => brs[y] = << >>

\* The steps bring every poset to what the brackets add up to.
RunsOut(steps, brs, la) == \A x \in Posets :
  \E b : Leads(steps, x, la[x], b) /\ Settles(brs[x], LevelsOf(brs, x), b)

\* The levels are a sum of what each poset's brackets take; x's own, if nothing else
\* needs x.
LEMMA LevelsAre ==
  ASSUME NEW brs \in Brs, NEW x \in Posets
  PROVE  /\ LevelsOf(brs, x) \in Nat
         /\ \A y \in Posets : OwnOf(brs[y]) * Occurrences(x, y) <= LevelsOf(brs, x)
         /\ (\A y \in Posets \ {x} : x \in Chain(y) => brs[y] = << >>) => LevelsOf(brs, x) = OwnOf(brs[x])
         /\ LevelsOf(brs, x) # 0 => \E y \in Posets : x \in Chain(y) /\ brs[y] # << >>
<1>1. PICK f : f = [y \in Posets |-> OwnOf(brs[y]) * Occurrences(x, y)]
  OBVIOUS
<1>2. \A y \in Posets : OwnOf(brs[y]) \in Nat /\ (brs[y] = << >> => OwnOf(brs[y]) = 0)
  BY CountsAre DEF Brs
<1>3. \A y \in Posets : Occurrences(x, y) \in Nat /\ (x \in Chain(y) <=> Occurrences(x, y) > 0)
  BY OccurrencesAre DEF Nodes
<1>4. f \in [Posets -> Nat]
  <2>1. ASSUME NEW y \in Posets PROVE OwnOf(brs[y]) * Occurrences(x, y) \in Nat
    BY <1>2, <1>3
  <2> QED BY <1>1, <2>1
<1>5. IsFiniteSet(Posets) /\ LevelsOf(brs, x) = SumFunction(f)
  BY <1>1, ConstantsAre DEF LevelsOf
<1>6. \A y \in Posets : f[y] = OwnOf(brs[y]) * Occurrences(x, y)
  BY <1>1
<1>7. LevelsOf(brs, x) \in Nat /\ \A y \in Posets : f[y] <= LevelsOf(brs, x)
  BY <1>4, <1>5, SumOfNats
<1>8. ASSUME \A y \in Posets \ {x} : x \in Chain(y) => brs[y] = << >>
      PROVE  LevelsOf(brs, x) = OwnOf(brs[x])
  <2>1. ASSUME NEW y \in Posets, y # x PROVE f[y] = 0
    <3>1. OwnOf(brs[y]) = 0 \/ Occurrences(x, y) = 0
      BY <1>2, <1>3, <1>8, <2>1
    <3>2. PICK m, o : m = OwnOf(brs[y]) /\ o = Occurrences(x, y)
      OBVIOUS
    <3>3. m \in Nat /\ o \in Nat /\ (m = 0 \/ o = 0)
      BY <1>2, <1>3, <3>1, <3>2
    <3>4. m * o = 0
      BY <3>3
    <3> QED BY <1>6, <3>2, <3>4
  <2>2. SumFunction(f) = f[x]
    BY <1>4, <1>5, <2>1, SumOfOne
  <2>3. f[x] = OwnOf(brs[x])
    <3>1. Occurrences(x, x) = 1
      BY OnceInItsChain
    <3> QED BY <1>2, <1>6, <3>1
  <2> QED BY <1>5, <2>2, <2>3
<1>9. ASSUME \A y \in Posets : ~(x \in Chain(y) /\ brs[y] # << >>) PROVE LevelsOf(brs, x) = 0
  <2>1. ASSUME NEW y \in Posets PROVE f[y] = 0
    <3>1. OwnOf(brs[y]) = 0 \/ Occurrences(x, y) = 0
      BY <1>2, <1>3, <1>9
    <3>2. PICK m, o : m = OwnOf(brs[y]) /\ o = Occurrences(x, y)
      OBVIOUS
    <3>3. m \in Nat /\ o \in Nat /\ (m = 0 \/ o = 0)
      BY <1>2, <1>3, <3>1, <3>2
    <3>4. m * o = 0
      BY <3>3
    <3> QED BY <1>6, <3>2, <3>4
  <2> QED BY <1>4, <1>5, <2>1, SumOfNats
<1> QED BY <1>6, <1>7, <1>8, <1>9

\* The brackets on one poset change.
LEMMA LevelsChange ==
  ASSUME NEW brs \in Brs, NEW cs \in Brs, NEW y \in Posets,
         \A z \in Posets : z # y => cs[z] = brs[z], NEW x \in Posets
  PROVE  LevelsOf(cs, x) = LevelsOf(brs, x) + OwnOf(cs[y]) * Occurrences(x, y) - OwnOf(brs[y]) * Occurrences(x, y)
<1>1. PICK f : f = [z \in Posets |-> OwnOf(brs[z]) * Occurrences(x, z)]
  OBVIOUS
<1>2. PICK g : g = [z \in Posets |-> OwnOf(cs[z]) * Occurrences(x, z)]
  OBVIOUS
<1>3. \A z \in Posets : OwnOf(brs[z]) \in Nat /\ OwnOf(cs[z]) \in Nat /\ Occurrences(x, z) \in Nat
  BY CountsAre, OccurrencesAre DEF Brs, Nodes
<1>4. f \in [Posets -> Int] /\ g \in [Posets -> Int]
  <2>1. ASSUME NEW z \in Posets
        PROVE  OwnOf(brs[z]) * Occurrences(x, z) \in Int /\ OwnOf(cs[z]) * Occurrences(x, z) \in Int
    BY <1>3
  <2> QED BY <1>1, <1>2, <2>1
<1>5. \A z \in Posets : z # y => g[z] = f[z]
  BY <1>1, <1>2
<1>6. SumFunction(g) = SumFunction(f) + g[y] - f[y]
  BY <1>4, <1>5, ConstantsAre, SumChanges
<1>7. LevelsOf(brs, x) = SumFunction(f) /\ LevelsOf(cs, x) = SumFunction(g)
  BY <1>1, <1>2 DEF LevelsOf
<1> QED BY <1>1, <1>2, <1>6, <1>7

\* What t asked last of x, k, adds to the levels of what x needs.
LEMMA LevelsOfLast ==
  ASSUME NEW brs \in Brs, NEW cs \in Brs, NEW x \in Posets, NEW k \in Kinds,
         \A z \in Posets : z # x => cs[z] = brs[z], cs[x] = Append(brs[x], k), NEW z \in Posets
  PROVE  /\ k # "inner_edit" => LevelsOf(cs, z) = LevelsOf(brs, z) + Occurrences(z, x)
         /\ k = "inner_edit" => LevelsOf(cs, z) = LevelsOf(brs, z)
<1>1. LevelsOf(cs, z) = LevelsOf(brs, z) + OwnOf(cs[x]) * Occurrences(z, x) - OwnOf(brs[x]) * Occurrences(z, x)
  BY LevelsChange
<1>2. LevelsOf(brs, z) \in Nat /\ Occurrences(z, x) \in Nat
  BY LevelsAre, OccurrencesAre DEF Nodes
<1>3. brs[x] \in Seq(Kinds) /\ OwnOf(brs[x]) \in Nat
  BY CountsAre DEF Brs
<1>4. OwnOf(cs[x]) = OwnOf(brs[x]) + IF k = "inner_edit" THEN 0 ELSE 1
  BY <1>3, AppendCounts
<1>5. PICK m, o, l : m = OwnOf(brs[x]) /\ o = Occurrences(z, x) /\ l = LevelsOf(brs, z)
  OBVIOUS
<1>6. m \in Nat /\ o \in Nat /\ l \in Nat
  BY <1>2, <1>3, <1>5
<1>7. (m + 1) * o = m * o + o /\ (m + 0) * o = m * o /\ m * o \in Nat
  BY <1>6
<1>8. PICK p : p = m * o
  OBVIOUS
<1>9. p \in Nat /\ (m + 1) * o = p + o /\ (m + 0) * o = p
  BY <1>7, <1>8
<1>10. k # "inner_edit" => LevelsOf(cs, z) = l + (p + o) - p
  BY <1>1, <1>4, <1>5, <1>8, <1>9
<1>11. k = "inner_edit" => LevelsOf(cs, z) = l + p - p
  BY <1>1, <1>4, <1>5, <1>8, <1>9
<1>12. l + (p + o) - p = l + o /\ l + p - p = l
  BY <1>6, <1>9
<1> QED BY <1>5, <1>10, <1>11, <1>12

\* What a thread between calls has of x, and of the posets that need x.
LEMMA BetweenCalls ==
  ASSUME NEW brs \in Brs, NEW la, SettledIn(brs, la), Bracketed(brs), NEW x \in Posets
  PROVE  /\ la[x].mode = "write" <=> ~AllRead(brs[x])
         /\ la[x].mode = "none" <=> LevelsOf(brs, x) = 0
         /\ ~AllRead(brs[x]) => LevelsOf(brs, x) = OwnOf(brs[x])
         /\ \A y \in Posets : x \in Chain(y) /\ brs[y] # << >> => la[x].mode # "none" /\ LevelsOf(brs, x) > 0
         /\ la[x].mode # "none" => \E y \in Posets : x \in Chain(y) /\ brs[y] # << >>
         /\ \A y \in Posets : x \in Chain(y) /\ x # y /\ la[y].mode # "none" => AllRead(brs[x])
<1>1. \A y \in Posets : /\ brs[y] \in Seq(Kinds) /\ LevelsOf(brs, y) \in Nat
                        /\ Settles(brs[y], LevelsOf(brs, y), la[y])
  BY LevelsAre DEF Brs, SettledIn
<1>2. \A y \in Posets : /\ la[y].mode = "write" <=> ~AllRead(brs[y])
                        /\ la[y].mode = "none" <=> LevelsOf(brs, y) = 0
  BY <1>1, SettledWriter
<1>3. ~AllRead(brs[x]) => LevelsOf(brs, x) = OwnOf(brs[x])
  BY LevelsAre DEF Bracketed
<1>4. ASSUME NEW y \in Posets, x \in Chain(y), brs[y] # << >> PROVE LevelsOf(brs, x) > 0
  <2>1. OwnOf(brs[y]) \in Nat /\ OwnOf(brs[y]) > 0
    <3>1. OwnOf(brs[y]) \in Nat
      BY <1>1, CountsAre
    <3>2. CASE AllRead(brs[y])
      <4>1. OwnOf(brs[y]) = Len(brs[y])
        BY <1>1, <3>2, CountsAre
      <4>2. Len(brs[y]) \in Nat /\ Len(brs[y]) # 0
        BY <1>1, <1>4
      <4> QED BY <4>1, <4>2
    <3>3. CASE ~AllRead(brs[y])
      <4>1. la[y].switch \in Nat /\ Upgraded(brs[y], la[y].switch)
        BY <1>1, <3>3, LocalIs DEF Settles
      <4>2. la[y].switch < OwnOf(brs[y])
        BY <1>1, <4>1, CountsAre
      <4> QED BY <3>1, <4>1, <4>2
    <3> QED BY <3>1, <3>2, <3>3
  <2>2. Occurrences(x, y) \in Nat /\ Occurrences(x, y) > 0
    BY <1>4, OccurrencesAre DEF Nodes
  <2>3. PICK m, o : m = OwnOf(brs[y]) /\ o = Occurrences(x, y)
    OBVIOUS
  <2>4. m * o \in Nat /\ m * o # 0
    BY <2>1, <2>2, <2>3
  <2>5. m * o <= LevelsOf(brs, x) /\ LevelsOf(brs, x) \in Nat
    BY <2>3, LevelsAre
  <2> QED BY <2>4, <2>5
<1>5. la[x].mode # "none" => \E y \in Posets : x \in Chain(y) /\ brs[y] # << >>
  BY <1>2, LevelsAre
<1>6. ASSUME NEW y \in Posets, x \in Chain(y), x # y, la[y].mode # "none" PROVE AllRead(brs[x])
  <2>1. PICK w \in Posets : y \in Chain(w) /\ brs[w] # << >>
    BY <1>2, <1>6, LevelsAre
  <2>2. x \in Chain(w)
    BY <1>6, <2>1, ChainOfChain
  <2>3. w # x
    BY <1>6, <2>1, ChainsAreWays
  <2> QED BY <2>1, <2>2, <2>3 DEF Bracketed
<1> QED BY <1>1, <1>2, <1>3, <1>4, <1>5, <1>6

\* A bracket opened on a poset, when nothing it needs is written.
LEMMA OpenKeeps ==
  ASSUME NEW brs \in Brs, NEW cs \in Brs, NEW x \in Posets, NEW k \in Kinds, Bracketed(brs),
         \A z \in Posets : z # x => cs[z] = brs[z], cs[x] = Append(brs[x], k),
         \A z \in Chain(x) \ {x} : AllRead(brs[z]),
         ~AllRead(cs[x]) => x \notin Base /\ \A y \in Posets \ {x} : x \in Chain(y) => brs[y] = << >>
  PROVE  Bracketed(cs)
<1> SUFFICES ASSUME NEW z \in Posets, ~AllRead(cs[z])
             PROVE  z \notin Base /\ \A y \in Posets \ {z} : z \in Chain(y) => cs[y] = << >>
  BY DEF Bracketed
<1>1. CASE z = x
  BY <1>1
<1>2. CASE z # x
  <2>1. z \notin Base /\ \A y \in Posets \ {z} : z \in Chain(y) => brs[y] = << >>
    BY <1>2 DEF Bracketed
  <2>2. z \notin Chain(x)
    BY <1>2
  <2> QED BY <2>1, <2>2
<1> QED BY <1>1, <1>2

\* A bracket closed.
LEMMA CloseKeeps ==
  ASSUME NEW brs \in Brs, NEW cs \in Brs, NEW x \in Posets, Bracketed(brs),
         \A z \in Posets : z # x => cs[z] = brs[z],
         ~AllRead(cs[x]) => ~AllRead(brs[x]), brs[x] = << >> => cs[x] = << >>
  PROVE  Bracketed(cs)
<1> SUFFICES ASSUME NEW z \in Posets, ~AllRead(cs[z])
             PROVE  z \notin Base /\ \A y \in Posets \ {z} : z \in Chain(y) => cs[y] = << >>
  BY DEF Bracketed
<1>1. ~AllRead(brs[z])
  BY DEF Brs
<1>2. z \notin Base /\ \A y \in Posets \ {z} : z \in Chain(y) => brs[y] = << >>
  BY <1>1 DEF Bracketed
<1> QED BY <1>2

\* The posets but x, when x is asked for.
LEMMA OthersOfRequest ==
  ASSUME NEW brs \in Brs, NEW cs \in Brs, NEW la, NEW x \in Posets, NEW k \in Kinds, SettledIn(brs, la),
         \A z \in Posets : z # x => cs[z] = brs[z], cs[x] = Append(brs[x], k),
         NEW z \in Posets, z # x, NEW s,
         NEW m, k = "inner_edit" => m = LevelsOf(brs, z),
         k # "inner_edit" => m = LevelsOf(brs, z) + Occurrences(z, x),
         Carries(s, z, brs[z], LevelsOf(brs, z), m)
  PROVE  \E b : Leads(s, z, la[z], b) /\ Settles(cs[z], LevelsOf(cs, z), b)
<1>1. Settles(brs[z], LevelsOf(brs, z), la[z])
  BY DEF SettledIn
<1>2. LevelsOf(cs, z) = m
  BY LevelsOfLast
<1>3. cs[z] = brs[z]
  OBVIOUS
<1>4. \E b : Leads(s, z, la[z], b) /\ Settles(brs[z], m, b)
  BY <1>1 DEF Carries
<1> QED BY <1>2, <1>3, <1>4

\* A request to read settles, when nothing x needs is written.
LEMMA RequestRead ==
  ASSUME NEW brs \in Brs, NEW cs \in Brs, NEW la, NEW x \in Posets, SettledIn(brs, la), Bracketed(brs),
         \A z \in Posets : z # x => cs[z] = brs[z], cs[x] = Append(brs[x], "read"),
         \A z \in Chain(x) \ {x} : AllRead(brs[z])
  PROVE  /\ get_read_access[x] \in Seq(Steps)
         /\ RunsOut(get_read_access[x], cs, la) /\ Bracketed(cs)
<1>1. "read" \in Kinds /\ x \in Nodes /\ brs[x] \in Seq(Kinds)
  BY DEF Kinds, Nodes, Brs
<1>2. get_read_access[x] \in Seq(Steps)
  BY <1>1, get_read_accessIs
<1>3. AllRead(cs[x]) <=> AllRead(brs[x])
  BY <1>1, AppendCounts
<1>4. Bracketed(cs)
  <2>1. ~AllRead(cs[x]) => x \notin Base /\ \A y \in Posets \ {x} : x \in Chain(y) => brs[y] = << >>
    BY <1>3 DEF Bracketed
  <2> QED BY <1>1, <2>1, OpenKeeps
<1>5. ASSUME NEW z \in Posets, z # x
      PROVE  \E b : Leads(get_read_access[x], z, la[z], b) /\ Settles(cs[z], LevelsOf(cs, z), b)
  <2>1. AllRead(brs[z]) \/ Occurrences(z, x) = 0
    <3>1. Occurrences(z, x) \in Nat /\ (z \in Chain(x) <=> Occurrences(z, x) > 0)
      BY <1>1, OccurrencesAre
    <3> QED BY <1>5, <3>1
  <2>2. brs[z] \in Seq(Kinds) /\ LevelsOf(brs, z) \in Nat
    BY LevelsAre DEF Brs
  <2>3. PICK m : m = LevelsOf(brs, z) + Occurrences(z, x)
    OBVIOUS
  <2>4. Carries(get_read_access[x], z, brs[z], LevelsOf(brs, z), m)
    BY <1>1, <2>1, <2>2, <2>3, CarriesGet
  <2>5. PICK s, k : s = get_read_access[x] /\ k = "read"
    OBVIOUS
  <2>6. /\ Carries(s, z, brs[z], LevelsOf(brs, z), m) /\ cs[x] = Append(brs[x], k)
        /\ k \in Kinds /\ k # "inner_edit"
    BY <1>1, <2>4, <2>5
  <2>7. \E b : Leads(s, z, la[z], b) /\ Settles(cs[z], LevelsOf(cs, z), b)
    BY <1>5, <2>3, <2>6, OthersOfRequest
  <2> QED BY <2>5, <2>7
<1>6. \E b : Leads(get_read_access[x], x, la[x], b) /\ Settles(cs[x], LevelsOf(cs, x), b)
  <2>1. Settles(brs[x], LevelsOf(brs, x), la[x]) /\ LevelsOf(brs, x) \in Nat /\ la[x] \in LocalState
    BY LevelsAre DEF SettledIn, Settles
  <2>2. Occurrences(x, x) = 1
    BY OnceInItsChain
  <2>3. LevelsOf(cs, x) = LevelsOf(brs, x) + 1
    BY <1>1, <2>2, LevelsOfLast
  <2>4. Settles(cs[x], LevelsOf(cs, x), Got(la[x], 1))
    BY <1>1, <2>1, <2>3, AsksRead
  <2>5. Leads(get_read_access[x], x, la[x], Got(la[x], 1))
    BY <1>1, <2>1, <2>2, GetLeads
  <2> QED BY <2>4, <2>5
<1> QED BY <1>2, <1>4, <1>5, <1>6 DEF RunsOut

\* The sequences of steps of jim edit mode.
LEMMA begin_jim_edit_modeIs ==
  ASSUME NEW x \in Posets
  PROVE  /\ begin_jim_edit_mode(x, TRUE) = get_read_write_access(x) \o <<<<"request_edit", x>>>>
         /\ begin_jim_edit_mode(x, FALSE) = <<<<"request_edit", x>>>>
         /\ end_jim_edit_mode(x, TRUE) = <<<<"release_edit", x>>>> \o release_access_once[x]
         /\ end_jim_edit_mode(x, FALSE) = <<<<"release_edit", x>>>>
         /\ begin_jim_edit_mode(x, TRUE) \in Seq(Steps) /\ begin_jim_edit_mode(x, FALSE) \in Seq(Steps)
         /\ end_jim_edit_mode(x, TRUE) \in Seq(Steps) /\ end_jim_edit_mode(x, FALSE) \in Seq(Steps)
<1>1. PICK s, t : s = <<<<"request_edit", x>>>> /\ t = <<<<"release_edit", x>>>>
  OBVIOUS
<1>2. s \in Seq(Steps) /\ t \in Seq(Steps)
  BY <1>1, OneStep DEF Ops
<1>3. << >> \o s = s /\ t \o << >> = t
  BY <1>2, ConcatEmptySeq
<1>4. get_read_write_access(x) \in Seq(Steps) /\ release_access_once[x] \in Seq(Steps)
  <2>1. At("none", 0, 0, 0) \in LocalState
    BY LocalIs
  <2>2. x \in Nodes
    BY DEF Nodes
  <2> QED BY <2>1, <2>2, WriteLeads, release_access_onceIs
<1>5. /\ begin_jim_edit_mode(x, TRUE) = get_read_write_access(x) \o s
      /\ begin_jim_edit_mode(x, FALSE) = s
      /\ end_jim_edit_mode(x, TRUE) = t \o release_access_once[x]
      /\ end_jim_edit_mode(x, FALSE) = t
  <2>1. /\ begin_jim_edit_mode(x, TRUE) = get_read_write_access(x) \o s
        /\ begin_jim_edit_mode(x, FALSE) = << >> \o s
        /\ end_jim_edit_mode(x, TRUE) = t \o release_access_once[x]
        /\ end_jim_edit_mode(x, FALSE) = t \o << >>
    BY <1>1 DEF begin_jim_edit_mode, end_jim_edit_mode
  <2> QED BY <1>3, <2>1
<1>6. get_read_write_access(x) \o s \in Seq(Steps) /\ t \o release_access_once[x] \in Seq(Steps)
  BY <1>2, <1>4, ConcatProperties
<1> QED BY <1>1, <1>2, <1>5, <1>6

\* A request to write settles, when nothing that needs x was asked for.
LEMMA RequestWrite ==
  ASSUME NEW brs \in Brs, NEW cs \in Brs, NEW la, NEW x \in Posets, SettledIn(brs, la), Bracketed(brs),
         NEW k \in {"write", "edit"},
         \A z \in Posets : z # x => cs[z] = brs[z], cs[x] = Append(brs[x], k),
         \A z \in Chain(x) \ {x} : AllRead(brs[z]),
         x \notin Base, \A y \in Posets \ {x} : x \in Chain(y) => brs[y] = << >>,
         NEW s, s = IF k = "edit" THEN begin_jim_edit_mode(x, TRUE) ELSE get_read_write_access(x)
  PROVE  s \in Seq(Steps) /\ RunsOut(s, cs, la) /\ Bracketed(cs)
<1>1. k \in Kinds /\ k # "inner_edit" /\ x \in Nodes /\ brs[x] \in Seq(Kinds)
  BY DEF Kinds, Nodes, Brs
<1>2. PICK e : e = <<<<"request_edit", x>>>>
  OBVIOUS
<1>3. s = IF k = "edit" THEN get_read_write_access(x) \o e ELSE get_read_write_access(x)
  BY <1>2, begin_jim_edit_modeIs
<1>4. e \in Seq(Steps)
  BY <1>2, OneStep DEF Ops
<1>5. Settles(brs[x], LevelsOf(brs, x), la[x]) /\ LevelsOf(brs, x) \in Nat /\ la[x] \in LocalState
  BY LevelsAre DEF SettledIn, Settles
<1>6. get_read_write_access(x) \in Seq(Steps) /\ s \in Seq(Steps)
  <2>1. get_read_write_access(x) \in Seq(Steps)
    BY <1>5, WriteLeads
  <2> QED BY <1>3, <1>4, <2>1, ConcatProperties
<1>7. Bracketed(cs)
  BY <1>1, OpenKeeps
<1>8. ASSUME NEW z \in Posets, z # x
      PROVE  \E b : Leads(s, z, la[z], b) /\ Settles(cs[z], LevelsOf(cs, z), b)
  <2>1. AllRead(brs[z]) \/ Occurrences(z, x) = 0
    <3>1. Occurrences(z, x) \in Nat /\ (z \in Chain(x) <=> Occurrences(z, x) > 0)
      BY <1>1, OccurrencesAre
    <3> QED BY <1>8, <3>1
  <2>2. brs[z] \in Seq(Kinds) /\ LevelsOf(brs, z) \in Nat
    BY LevelsAre DEF Brs
  <2>3. PICK n, m : n = LevelsOf(brs, z) /\ m = LevelsOf(brs, z) + Occurrences(z, x)
    OBVIOUS
  <2>4. Carries(get_read_write_access(x), z, brs[z], n, m)
    BY <1>1, <1>8, <2>1, <2>2, <2>3, CarriesGet
  <2>5. Spares(e, z)
    BY <1>2, <1>8, SparesStep DEF Ops
  <2>6. Carries(e, z, brs[z], m, m)
    BY <2>5, CarriesSpared
  <2>7. Carries(get_read_write_access(x) \o e, z, brs[z], n, m)
    BY <1>4, <1>6, <2>4, <2>6, CarriesConcat
  <2>8. Carries(s, z, brs[z], n, m)
    BY <1>3, <2>4, <2>7
  <2> QED BY <1>1, <1>8, <2>3, <2>8, OthersOfRequest
<1>9. \E b : Leads(s, x, la[x], b) /\ Settles(cs[x], LevelsOf(cs, x), b)
  <2>1. PICK a, n : a = la[x] /\ n = LevelsOf(brs, x)
    OBVIOUS
  <2>2. LevelsOf(cs, x) = n + 1 /\ n = OwnOf(brs[x])
    <3>1. Occurrences(x, x) = 1
      BY OnceInItsChain
    <3> QED BY <1>1, <2>1, <3>1, LevelsOfLast, LevelsAre
  <2>3. a \in LocalState /\ n \in Nat /\ Settles(brs[x], n, a) /\ a.depth = n
    BY <1>5, <2>1 DEF Settles
  <2>4. PICK w : w = Wrote(a)
    OBVIOUS
  <2>5. w \in LocalState /\ w.mode = "write" /\ w.depth = n + 1 /\ w.switch = Wrote(a).switch /\ w.edits = a.edits
        /\ a.edits \in Nat
    BY <2>3, <2>4, WroteIs, LocalIs
  <2>6. Leads(get_read_write_access(x), x, a, w)
    BY <2>3, <2>4, WriteLeads
  <2>7. CASE k = "write"
    <3>1. w.edits = a.edits + (IF k = "edit" THEN 1 ELSE 0)
      BY <2>5, <2>7
    <3>2. Settles(cs[x], n + 1, w)
      BY <1>1, <2>2, <2>3, <2>5, <3>1, AsksWrite
    <3> QED BY <1>3, <2>1, <2>2, <2>6, <2>7, <3>2
  <2>8. CASE k = "edit"
    <3>1. PICK b : b = At("write", n + 1, w.switch, a.edits + 1)
      OBVIOUS
    <3>2. b.mode = "write" /\ b.depth = n + 1 /\ b.switch = w.switch /\ b.edits = a.edits + 1
      BY <3>1 DEF At
    <3>3. b \in LocalState
      <4>1. n + 1 \in Nat /\ w.switch \in Nat /\ a.edits + 1 \in Nat
        <5>1. w.switch \in Nat
          BY <2>5, LocalIs
        <5> QED BY <2>3, <2>5, <5>1
      <4> QED BY <3>1, <4>1, LocalIs
    <3>4. Moves("request_edit", w, b)
      BY <2>5, <3>2 DEF Moves
    <3>5. Leads(e, x, w, b)
      BY <1>2, <2>5, <3>3, <3>4, StepLeads DEF Ops
    <3>6. Leads(s, x, a, b)
      BY <1>3, <1>4, <1>6, <2>6, <2>8, <3>5, LeadsOn
    <3>7. b.edits = a.edits + (IF k = "edit" THEN 1 ELSE 0)
      BY <2>8, <3>2
    <3>8. Settles(cs[x], n + 1, b)
      BY <1>1, <2>2, <2>3, <2>5, <3>2, <3>3, <3>7, AsksWrite
    <3> QED BY <2>1, <2>2, <3>6, <3>8
  <2> QED BY <2>7, <2>8
<1> QED BY <1>6, <1>7, <1>8, <1>9 DEF RunsOut

\* A writer's request for edit mode settles.
LEMMA RequestInnerEdit ==
  ASSUME NEW brs \in Brs, NEW cs \in Brs, NEW la, NEW x \in Posets, SettledIn(brs, la), Bracketed(brs),
         \A z \in Posets : z # x => cs[z] = brs[z], cs[x] = Append(brs[x], "inner_edit"),
         ~AllRead(brs[x]), \A z \in Chain(x) \ {x} : AllRead(brs[z])
  PROVE  /\ begin_jim_edit_mode(x, FALSE) \in Seq(Steps)
         /\ RunsOut(begin_jim_edit_mode(x, FALSE), cs, la) /\ Bracketed(cs)
<1>1. "inner_edit" \in Kinds /\ brs[x] \in Seq(Kinds)
  BY DEF Kinds, Brs
<1>2. PICK e : e = <<<<"request_edit", x>>>>
  OBVIOUS
<1>3. begin_jim_edit_mode(x, FALSE) = e /\ e \in Seq(Steps)
  BY <1>2, begin_jim_edit_modeIs
<1>4. Bracketed(cs)
  <2>1. x \notin Base /\ \A y \in Posets \ {x} : x \in Chain(y) => brs[y] = << >>
    BY DEF Bracketed
  <2> QED BY <1>1, <2>1, OpenKeeps
<1>5. ASSUME NEW z \in Posets, z # x
      PROVE  \E b : Leads(e, z, la[z], b) /\ Settles(cs[z], LevelsOf(cs, z), b)
  <2>1. Spares(e, z)
    BY <1>2, <1>5, SparesStep DEF Ops
  <2>2. Carries(e, z, brs[z], LevelsOf(brs, z), LevelsOf(brs, z))
    BY <2>1, CarriesSpared
  <2> QED BY <1>1, <1>5, <2>2, OthersOfRequest
<1>6. \E b : Leads(e, x, la[x], b) /\ Settles(cs[x], LevelsOf(cs, x), b)
  <2>1. PICK a, n : a = la[x] /\ n = LevelsOf(brs, x)
    OBVIOUS
  <2>2. n \in Nat /\ Settles(brs[x], n, a) /\ a \in LocalState /\ LevelsOf(cs, x) = n
    BY <1>1, <2>1, LevelsAre, LevelsOfLast DEF SettledIn, Settles
  <2>3. a.mode = "write" /\ a.depth \in Nat /\ a.switch \in Nat /\ a.edits \in Nat
    BY <1>1, <2>2, SettledWriter, LocalIs
  <2>4. PICK b : b = At("write", a.depth, a.switch, a.edits + 1)
    OBVIOUS
  <2>5. b.mode = "write" /\ b.depth = a.depth /\ b.switch = a.switch /\ b.edits = a.edits + 1
    BY <2>4 DEF At
  <2>6. b \in LocalState
    <3>1. a.edits + 1 \in Nat
      BY <2>3
    <3> QED BY <2>3, <2>4, <3>1, LocalIs
  <2>7. Moves("request_edit", a, b)
    BY <2>3, <2>5 DEF Moves
  <2>8. Leads(e, x, a, b)
    BY <1>2, <2>2, <2>6, <2>7, StepLeads DEF Ops
  <2>9. Settles(cs[x], n, b)
    BY <1>1, <2>2, <2>3, <2>5, <2>6, AsksInnerEdit
  <2> QED BY <2>1, <2>2, <2>8, <2>9
<1> QED BY <1>3, <1>4, <1>5, <1>6 DEF RunsOut

\* Once.
LEMMA TimesOne ==
  ASSUME NEW s \in Seq(Steps)
  PROVE  Times(1, s) = s
<1>1. PICK p : Repeats(p, Steps, s)
  BY FlattenSame
<1>2. p[0] = << >> /\ p[0 + 1] = p[0] \o s /\ Times(1, s) = p[1]
  BY <1>1 DEF Repeats, Times
<1>3. << >> \o s = s
  BY ConcatEmptySeq
<1> QED BY <1>2, <1>3

\* The posets but x, when the last thing asked of x is released.
LEMMA OthersOfFinish ==
  ASSUME NEW brs \in Brs, NEW cs \in Brs, NEW la, NEW x \in Posets, NEW k \in Kinds, SettledIn(brs, la),
         \A z \in Posets : z # x => cs[z] = brs[z], brs[x] = Append(cs[x], k),
         NEW z \in Posets, z # x, NEW s, NEW m,
         k = "inner_edit" => m = LevelsOf(brs, z),
         k # "inner_edit" => m = LevelsOf(brs, z) - Occurrences(z, x),
         Carries(s, z, brs[z], LevelsOf(brs, z), m)
  PROVE  \E b : Leads(s, z, la[z], b) /\ Settles(cs[z], LevelsOf(cs, z), b)
<1>1. Settles(brs[z], LevelsOf(brs, z), la[z])
  BY DEF SettledIn
<1>2. \A w \in Posets : w # x => brs[w] = cs[w]
  OBVIOUS
<1>3. /\ k # "inner_edit" => LevelsOf(brs, z) = LevelsOf(cs, z) + Occurrences(z, x)
      /\ k = "inner_edit" => LevelsOf(brs, z) = LevelsOf(cs, z)
  BY <1>2, LevelsOfLast
<1>4. LevelsOf(cs, z) \in Nat /\ Occurrences(z, x) \in Nat
  BY LevelsAre, OccurrencesAre DEF Nodes
<1>5. LevelsOf(cs, z) = m
  BY <1>3, <1>4
<1>6. \E b : Leads(s, z, la[z], b) /\ Settles(brs[z], m, b)
  BY <1>1 DEF Carries
<1> QED BY <1>2, <1>5, <1>6

\* The release of the last bracket settles.
LEMMA FinishLast ==
  ASSUME NEW brs \in Brs, NEW cs \in Brs, NEW la, NEW x \in Posets, SettledIn(brs, la), Bracketed(brs),
         NEW k \in {"read", "write", "edit"},
         \A z \in Posets : z # x => cs[z] = brs[z], brs[x] = Append(cs[x], k),
         NEW s, s = IF k = "edit" THEN end_jim_edit_mode(x, TRUE) ELSE release_access_once[x]
  PROVE  s \in Seq(Steps) /\ RunsOut(s, cs, la) /\ Bracketed(cs)
<1>1. k \in Kinds /\ k # "inner_edit" /\ x \in Nodes /\ brs[x] \in Seq(Kinds) /\ cs[x] \in Seq(Kinds)
  BY DEF Kinds, Nodes, Brs
<1>2. PICK e : e = <<<<"release_edit", x>>>>
  OBVIOUS
<1>3. PICK r : r = release_access_once[x]
  OBVIOUS
<1>4. e \in Seq(Steps) /\ r \in Seq(Steps) /\ e \o r \in Seq(Steps)
  BY <1>1, <1>2, <1>3, release_access_onceIs, ConcatProperties, OneStep DEF Ops
<1>5. s = IF k = "edit" THEN e \o r ELSE r
  BY <1>2, <1>3, begin_jim_edit_modeIs
<1>6. brs[x] # << >>
  BY <1>1, AppendProperties
<1>7. Bracketed(cs)
  <2>1. ~AllRead(cs[x]) => ~AllRead(brs[x])
    BY <1>1, AppendCounts
  <2> QED BY <1>6, <2>1, CloseKeeps
<1>8. ASSUME NEW z \in Posets, z # x
      PROVE  \E b : Leads(s, z, la[z], b) /\ Settles(cs[z], LevelsOf(cs, z), b)
  <2>1. PICK n, o : n = LevelsOf(brs, z) /\ o = Occurrences(z, x)
    OBVIOUS
  <2>2. n \in Nat /\ o \in Nat /\ o <= n /\ brs[z] \in Seq(Kinds)
    <3>1. n = LevelsOf(cs, z) + o
      <4>1. \A w \in Posets : w # x => brs[w] = cs[w]
        OBVIOUS
      <4> QED BY <1>1, <2>1, <4>1, LevelsOfLast
    <3>2. n \in Nat /\ LevelsOf(cs, z) \in Nat /\ o \in Nat
      BY <1>1, <2>1, LevelsAre, OccurrencesAre
    <3> QED BY <3>1, <3>2 DEF Brs
  <2>3. AllRead(brs[z]) \/ o = 0
    <3>1. o = 0 \/ z \in Chain(x)
      BY <1>1, <2>1, <2>2, OccurrencesAre
    <3> QED BY <1>6, <1>8, <3>1 DEF Bracketed
  <2>4. Carries(r, z, brs[z], n, n - o)
    BY <1>1, <1>3, <2>1, <2>2, <2>3, CarriesRelease
  <2>5. Spares(e, z)
    BY <1>2, <1>8, SparesStep DEF Ops
  <2>6. Carries(e, z, brs[z], n, n)
    BY <2>5, CarriesSpared
  <2>7. Carries(e \o r, z, brs[z], n, n - o)
    BY <1>4, <2>4, <2>6, CarriesConcat
  <2>8. Carries(s, z, brs[z], n, n - o)
    BY <1>5, <2>4, <2>7
  <2> QED BY <1>1, <1>8, <2>1, <2>8, OthersOfFinish
<1>9. \E b : Leads(s, x, la[x], b) /\ Settles(cs[x], LevelsOf(cs, x), b)
  <2>1. PICK a, n : a = la[x] /\ n = LevelsOf(brs, x)
    OBVIOUS
  <2>2. n \in Nat /\ Settles(brs[x], n, a) /\ a \in LocalState /\ LevelsOf(cs, x) = n - 1 /\ n > 0
    <3>1. \A w \in Posets : w # x => brs[w] = cs[w]
      OBVIOUS
    <3>2. Occurrences(x, x) = 1
      BY OnceInItsChain
    <3>3. n = LevelsOf(cs, x) + 1 /\ LevelsOf(cs, x) \in Nat
      BY <1>1, <2>1, <3>1, <3>2, LevelsOfLast, LevelsAre
    <3>4. Settles(brs[x], n, a)
      BY <2>1 DEF SettledIn
    <3>5. a \in LocalState
      BY <3>4 DEF Settles
    <3> QED BY <3>3, <3>4, <3>5
  <2>3. a.depth \in Nat /\ a.switch \in Nat /\ a.edits \in Nat /\ a.mode \in {"none", "read", "write"}
    BY <2>2, LocalIs
  <2>4. CASE k # "edit"
    <3>1. a.edits = a.edits - (IF k = "edit" THEN 1 ELSE 0)
      BY <2>3, <2>4
    <3>2. Settles(Append(cs[x], k), n, a)
      BY <2>2
    <3>3. PICK b \in LocalState : Releases(a, b) /\ Settles(cs[x], n - 1, b)
      BY <1>1, <2>2, <3>1, <3>2, ReleasesLast
    <3>4. Leads(r, x, a, b)
      BY <1>3, <2>2, <3>3, OwnReleaseLeads
    <3> QED BY <1>5, <2>1, <2>2, <2>4, <3>3, <3>4
  <2>5. CASE k = "edit"
    <3>1. a.mode = "write" /\ a.edits > 0
      <4>1. ~AllRead(brs[x]) /\ EditsOf(brs[x]) = EditsOf(cs[x]) + 1 /\ EditsOf(cs[x]) \in Nat
        <5>1. EditsOf(cs[x]) \in Nat
          BY <1>1, CountsAre
        <5> QED BY <1>1, <2>5, <5>1, AppendCounts
      <4> QED BY <2>2, <4>1 DEF Settles
    <3>2. PICK c : c = At("write", a.depth, a.switch, a.edits - 1)
      OBVIOUS
    <3>3. c.mode = a.mode /\ c.depth = a.depth /\ c.switch = a.switch /\ c.edits = a.edits - 1
      BY <3>1, <3>2 DEF At
    <3>4. c \in LocalState
      <4>1. a.edits - 1 \in Nat
        BY <2>3, <3>1
      <4> QED BY <2>3, <3>2, <4>1, LocalIs
    <3>5. Moves("release_edit", a, c)
      BY <3>1, <3>3 DEF Moves
    <3>6. Leads(e, x, a, c)
      BY <1>2, <2>2, <3>4, <3>5, StepLeads DEF Ops
    <3>7. c.edits = a.edits - (IF k = "edit" THEN 1 ELSE 0)
      BY <2>5, <3>3
    <3>8. Settles(Append(cs[x], k), n, a)
      BY <2>2
    <3>9. PICK b \in LocalState : Releases(c, b) /\ Settles(cs[x], n - 1, b)
      BY <1>1, <2>2, <3>3, <3>4, <3>7, <3>8, ReleasesLast
    <3>10. Leads(r, x, c, b)
      BY <1>3, <3>4, <3>9, OwnReleaseLeads
    <3>11. Leads(e \o r, x, a, b)
      BY <1>4, <3>6, <3>10, LeadsOn
    <3> QED BY <1>5, <2>1, <2>2, <2>5, <3>9, <3>11
  <2> QED BY <2>4, <2>5
<1>10. s \in Seq(Steps)
  BY <1>4, <1>5
<1> QED BY <1>7, <1>8, <1>9, <1>10 DEF RunsOut

\* The end of an edit mode within write access settles.
LEMMA FinishInnerEdit ==
  ASSUME NEW brs \in Brs, NEW cs \in Brs, NEW la, NEW x \in Posets, SettledIn(brs, la), Bracketed(brs),
         \A z \in Posets : z # x => cs[z] = brs[z], brs[x] = Append(cs[x], "inner_edit")
  PROVE  /\ end_jim_edit_mode(x, FALSE) \in Seq(Steps)
         /\ RunsOut(end_jim_edit_mode(x, FALSE), cs, la) /\ Bracketed(cs)
<1>1. "inner_edit" \in Kinds /\ brs[x] \in Seq(Kinds) /\ cs[x] \in Seq(Kinds)
  BY DEF Kinds, Brs
<1>2. PICK e : e = <<<<"release_edit", x>>>>
  OBVIOUS
<1>3. end_jim_edit_mode(x, FALSE) = e /\ e \in Seq(Steps)
  BY <1>2, begin_jim_edit_modeIs
<1>4. brs[x] # << >> /\ ~AllRead(brs[x]) /\ EditsOf(brs[x]) = EditsOf(cs[x]) + 1 /\ EditsOf(cs[x]) \in Nat
  <2>1. EditsOf(cs[x]) \in Nat
    BY <1>1, CountsAre
  <2>2. brs[x] # << >>
    BY <1>1
  <2> QED BY <1>1, <2>1, <2>2, AppendCounts
<1>5. Bracketed(cs)
  BY <1>4, CloseKeeps
<1>6. ASSUME NEW z \in Posets, z # x
      PROVE  \E b : Leads(e, z, la[z], b) /\ Settles(cs[z], LevelsOf(cs, z), b)
  <2>1. Spares(e, z)
    BY <1>2, <1>6, SparesStep DEF Ops
  <2>2. Carries(e, z, brs[z], LevelsOf(brs, z), LevelsOf(brs, z))
    BY <2>1, CarriesSpared
  <2> QED BY <1>1, <1>6, <2>2, OthersOfFinish
<1>7. \E b : Leads(e, x, la[x], b) /\ Settles(cs[x], LevelsOf(cs, x), b)
  <2>1. PICK a, n : a = la[x] /\ n = LevelsOf(brs, x)
    OBVIOUS
  <2>2. n \in Nat /\ Settles(brs[x], n, a) /\ a \in LocalState /\ LevelsOf(cs, x) = n
    <3>1. \A w \in Posets : w # x => brs[w] = cs[w]
      OBVIOUS
    <3>2. n = LevelsOf(cs, x)
      BY <1>1, <2>1, <3>1, LevelsOfLast
    <3> QED BY <2>1, <3>2, LevelsAre DEF SettledIn, Settles
  <2>3. a.depth \in Nat /\ a.switch \in Nat /\ a.edits \in Nat
    BY <2>2, LocalIs
  <2>4. a.mode = "write" /\ a.edits > 0
    BY <1>4, <2>2 DEF Settles
  <2>5. PICK c : c = At("write", a.depth, a.switch, a.edits - 1)
    OBVIOUS
  <2>6. c.mode = a.mode /\ c.depth = a.depth /\ c.switch = a.switch /\ c.edits = a.edits - 1
    BY <2>4, <2>5 DEF At
  <2>7. c \in LocalState
    <3>1. a.edits - 1 \in Nat
      BY <2>3, <2>4
    <3> QED BY <2>3, <2>5, <3>1, LocalIs
  <2>8. Moves("release_edit", a, c)
    BY <2>4, <2>6 DEF Moves
  <2>9. Leads(e, x, a, c)
    BY <1>2, <2>2, <2>7, <2>8, StepLeads DEF Ops
  <2>10. Settles(Append(cs[x], "inner_edit"), n, a)
    BY <2>2
  <2>11. Settles(cs[x], n, c)
    BY <1>1, <2>2, <2>6, <2>7, <2>10, EndsInnerEdit
  <2> QED BY <2>1, <2>2, <2>9, <2>11
<1> QED BY <1>3, <1>5, <1>6, <1>7 DEF RunsOut

\* As many releases as requests leave nothing, an upgrade on the way or not.
LEMMA Drains ==
  ASSUME NEW x \in Posets, NEW br \in Seq(Kinds), NEW n \in Nat, NEW a, Settles(br, n, a), a.edits = 0
  PROVE  /\ Times(n, release_access_once[x]) \in Seq(Steps)
         /\ Leads(Times(n, release_access_once[x]), x, a, At("none", 0, 0, 0))
<1>1. PICK s : s = a.switch
  OBVIOUS
<1>2. /\ a \in LocalState /\ a.depth = n /\ s \in Nat /\ a.mode \in {"none", "read", "write"}
      /\ a.mode = "write" => s < n
      /\ a.mode = "none" <=> n = 0
      /\ a.mode # "write" => s = 0
  <2>1. a \in LocalState /\ a.depth = n
    BY DEF Settles
  <2>2. s \in Nat /\ a.mode \in {"none", "read", "write"}
    BY <1>1, <2>1, LocalIs
  <2> QED BY <1>1, <2>1, <2>2, SettledReader, SettledWriter
<1> DEFINE W(i) == a.mode = "write" /\ n - i > s
           M(i) == IF W(i) THEN "write" ELSE IF i = n THEN "none" ELSE "read"
           S(i) == IF W(i) THEN s ELSE 0
<1>3. PICK st : st = [i \in 0..n |-> At(M(i), n - i, S(i), 0)]
  OBVIOUS
<1>4. \A i \in 0..n : /\ M(i) \in {"none", "read", "write"} /\ n - i \in Nat /\ S(i) \in Nat
                      /\ st[i] = At(M(i), n - i, S(i), 0)
  BY <1>2, <1>3
<1> HIDE DEF W, M, S
<1>5. ASSUME NEW i \in 0..n
      PROVE  st[i] \in LocalState /\ st[i].mode = M(i) /\ st[i].depth = n - i /\ st[i].switch = S(i) /\ st[i].edits = 0
  <2>1. PICK m, d, w : m = M(i) /\ d = n - i /\ w = S(i)
    OBVIOUS
  <2>2. m \in {"none", "read", "write"} /\ d \in Nat /\ w \in Nat /\ st[i] = At(m, d, w, 0)
    BY <1>4, <2>1
  <2>3. st[i] \in LocalState
    <3>1. At(m, d, w, 0) \in LocalState
      BY <2>2 DEF At, LocalState
    <3> QED BY <2>2, <3>1
  <2>4. st[i].mode = m /\ st[i].depth = d /\ st[i].switch = w /\ st[i].edits = 0
    BY <2>2 DEF At
  <2> QED BY <2>1, <2>3, <2>4
<1>6. st \in [0..n -> LocalState]
  BY <1>3, <1>5
<1>7. st[0] = a
  <2>1. 0 \in 0..n /\ n - 0 = n
    OBVIOUS
  <2>2. M(0) = a.mode /\ S(0) = s
    BY <1>2, <2>1 DEF M, S, W
  <2>3. st[0] \in LocalState /\ st[0].mode = a.mode /\ st[0].depth = a.depth /\ st[0].switch = a.switch
        /\ st[0].edits = a.edits
    BY <1>1, <1>2, <1>5, <2>1, <2>2
  <2> QED BY <1>2, <2>3, SameLocal
<1>8. st[n] = At("none", 0, 0, 0)
  <2>1. n \in 0..n /\ n - n = 0
    OBVIOUS
  <2>2. M(n) = "none" /\ S(n) = 0
    BY <1>2, <2>1 DEF M, S, W
  <2> QED BY <1>4, <2>1, <2>2
<1>9. ASSUME NEW i \in 1..n PROVE Leads(release_access_once[x], x, st[i - 1], st[i])
  <2>1. i \in 0..n /\ i - 1 \in 0..n /\ n - (i - 1) = (n - i) + 1 /\ i - 1 # n
    OBVIOUS
  <2>2. PICK c, b : c = st[i - 1] /\ b = st[i]
    OBVIOUS
  <2>3. /\ c \in LocalState /\ c.mode = M(i - 1) /\ c.depth = (n - i) + 1 /\ c.switch = S(i - 1) /\ c.edits = 0
        /\ b \in LocalState /\ b.mode = M(i) /\ b.depth = n - i /\ b.switch = S(i) /\ b.edits = 0
    BY <1>5, <2>1, <2>2
  <2>4. b.depth = c.depth - 1 /\ (n - i = 0 <=> i = n)
    BY <2>3
  <2>5. n - i = 0 => b.mode = "none" /\ b.switch = c.switch
    BY <1>2, <2>1, <2>3 DEF M, S, W
  <2>6. n - i # 0 /\ c.mode = "write" /\ n - i = c.switch => b.mode = "read" /\ b.switch = 0
    BY <1>2, <2>1, <2>3 DEF M, S, W
  <2>7. n - i # 0 /\ ~(c.mode = "write" /\ n - i = c.switch) => b.mode = c.mode /\ b.switch = c.switch
    BY <1>2, <2>1, <2>3 DEF M, S, W
  <2>8. Releases(c, b)
    BY <2>3, <2>4, <2>5, <2>6, <2>7 DEF Releases
  <2> QED BY <2>2, <2>3, <2>8, OwnReleaseLeads
<1>10. release_access_once[x] \in Seq(Steps)
  BY release_access_onceIs DEF Nodes
<1> QED BY <1>6, <1>7, <1>8, <1>9, <1>10, TimesLeads

\* A poset nobody asked for.
LEMMA NothingSettled ==
  Settles(<< >>, 0, At("none", 0, 0, 0)) /\ AllRead(<< >>) /\ OwnOf(<< >>) = 0
<1>1. PICK b : b = At("none", 0, 0, 0)
  OBVIOUS
<1>2. b \in LocalState /\ b.mode = "none" /\ b.depth = 0 /\ b.switch = 0 /\ b.edits = 0
  <2>1. b \in LocalState
    BY <1>1, LocalIs
  <2> QED BY <1>1, <2>1 DEF At
<1>0. << >> \in Seq(Kinds)
  OBVIOUS
<1>3. PICK e : e = << >> /\ e \in Seq(Kinds)
  BY <1>0
<1>4. AllRead(e) /\ OwnOf(e) = 0 /\ EditsOf(e) = 0
  BY <1>3, CountsAre
<1> QED BY <1>1, <1>2, <1>3, <1>4 DEF Settles

\* The posets but x, when all that was asked of x is given back.
LEMMA LevelsOfNone ==
  ASSUME NEW brs \in Brs, NEW cs \in Brs, NEW x \in Posets,
         \A z \in Posets : z # x => cs[z] = brs[z], cs[x] = << >>, NEW z \in Posets
  PROVE  /\ OwnOf(brs[x]) \in Nat /\ Occurrences(z, x) \in Nat
         /\ LevelsOf(cs, z) = LevelsOf(brs, z) - OwnOf(brs[x]) * Occurrences(z, x)
         /\ OwnOf(brs[x]) * Occurrences(z, x) <= LevelsOf(brs, z)
<1>1. LevelsOf(cs, z) = LevelsOf(brs, z) + OwnOf(cs[x]) * Occurrences(z, x) - OwnOf(brs[x]) * Occurrences(z, x)
  BY LevelsChange
<1>2. OwnOf(brs[x]) \in Nat /\ Occurrences(z, x) \in Nat /\ LevelsOf(brs, z) \in Nat /\ OwnOf(cs[x]) = 0
  BY CountsAre, OccurrencesAre, LevelsAre, NothingSettled DEF Brs, Nodes
<1>3. OwnOf(brs[x]) * Occurrences(z, x) <= LevelsOf(brs, z)
  BY LevelsAre
<1>4. PICK o, p, l : o = Occurrences(z, x) /\ p = OwnOf(brs[x]) * Occurrences(z, x) /\ l = LevelsOf(brs, z)
  OBVIOUS
<1>5. o \in Nat /\ l \in Nat /\ p \in Nat
  BY <1>2, <1>4
<1>6. LevelsOf(cs, z) = l + 0 * o - p
  BY <1>1, <1>2, <1>4
<1>7. l + 0 * o - p = l - p
  BY <1>5
<1> QED BY <1>2, <1>3, <1>4, <1>6, <1>7

\* The release of all levels settles, when they are all x's own.
LEMMA FinishAll ==
  ASSUME NEW brs \in Brs, NEW cs \in Brs, NEW la, NEW x \in Posets, SettledIn(brs, la), Bracketed(brs),
         \A z \in Posets : z # x => cs[z] = brs[z], cs[x] = << >>, brs[x] # << >>,
         EditsOf(brs[x]) = 0, la[x].depth = OwnOf(brs[x]),
         NEW s, s = Times(la[x].depth, release_access_once[x])
  PROVE  s \in Seq(Steps) /\ RunsOut(s, cs, la) /\ Bracketed(cs)
<1>1. x \in Nodes /\ brs[x] \in Seq(Kinds) /\ Settles(brs[x], LevelsOf(brs, x), la[x])
  BY DEF Nodes, Brs, SettledIn
<1>2. PICK k : k = OwnOf(brs[x])
  OBVIOUS
<1>3. s = Times(k, release_access_once[x]) /\ LevelsOf(brs, x) = k /\ la[x].edits = 0 /\ k \in Nat
  BY <1>1, <1>2, CountsAre DEF Settles
<1>4. Bracketed(cs)
  BY NothingSettled, CloseKeeps
<1>5. ASSUME NEW z \in Posets, z # x
      PROVE  \E b : Leads(s, z, la[z], b) /\ Settles(cs[z], LevelsOf(cs, z), b)
  <2>1. PICK n, o : n = LevelsOf(brs, z) /\ o = Occurrences(z, x)
    OBVIOUS
  <2>2. o \in Nat /\ LevelsOf(cs, z) = n - k * o /\ k * o <= n
    BY <1>2, <2>1, LevelsOfNone
  <2>3. n \in Nat /\ brs[z] \in Seq(Kinds) /\ Settles(brs[z], n, la[z])
    BY <2>1, LevelsAre DEF Brs, SettledIn
  <2>4. AllRead(brs[z]) \/ o = 0
    <3>1. o = 0 \/ z \in Chain(x)
      BY <1>1, <2>1, <2>2, OccurrencesAre
    <3> QED BY <1>5, <3>1 DEF Bracketed
  <2>5. Carries(s, z, brs[z], n, n - k * o)
    BY <1>1, <1>3, <2>1, <2>2, <2>3, <2>4, CarriesTimes
  <2>6. \E b : Leads(s, z, la[z], b) /\ Settles(brs[z], n - k * o, b)
    BY <2>3, <2>5 DEF Carries
  <2> QED BY <1>5, <2>2, <2>6
<1>6. \E b : Leads(s, x, la[x], b) /\ Settles(cs[x], LevelsOf(cs, x), b)
  <2>1. Leads(s, x, la[x], At("none", 0, 0, 0))
    BY <1>1, <1>3, Drains
  <2>2. LevelsOf(cs, x) = k - k * 1
    <3>1. Occurrences(x, x) = 1
      BY OnceInItsChain
    <3> QED BY <1>2, <1>3, <3>1, LevelsOfNone
  <2>3. LevelsOf(cs, x) = 0
    BY <1>3, <2>2
  <2> QED BY <2>1, <2>3, NothingSettled
<1>7. s \in Seq(Steps)
  BY <1>1, <1>3, Drains
<1> QED BY <1>4, <1>5, <1>6, <1>7 DEF RunsOut

\* An edit mode with access of its own ends where it began.
LEMMA EditUndone ==
  ASSUME NEW x \in Posets, NEW w \in LocalState, Releases(Wrote(w), w)
  PROVE  \E e \in LocalState :
           Leads(begin_jim_edit_mode(x, TRUE), x, w, e) /\ Leads(end_jim_edit_mode(x, TRUE), x, e, w)
<1>1. PICK v : v = Wrote(w)
  OBVIOUS
<1>2. v \in LocalState /\ v.mode = "write" /\ v.depth \in Nat /\ v.switch \in Nat /\ v.edits \in Nat
  <2>1. v \in LocalState /\ v.mode = "write"
    BY <1>1, WroteIs
  <2> QED BY <2>1, LocalIs
<1>3. PICK e : e = At("write", v.depth, v.switch, v.edits + 1)
  OBVIOUS
<1>4. e.mode = "write" /\ e.depth = v.depth /\ e.switch = v.switch /\ e.edits = v.edits + 1
  BY <1>3 DEF At
<1>5. e \in LocalState
  <2>1. v.edits + 1 \in Nat
    BY <1>2
  <2> QED BY <1>2, <1>3, <2>1, LocalIs
<1>6. Moves("request_edit", v, e) /\ Moves("release_edit", e, v)
  BY <1>2, <1>4 DEF Moves
<1>7. PICK s, t, g, r : /\ s = <<<<"request_edit", x>>>> /\ t = <<<<"release_edit", x>>>>
                        /\ g = get_read_write_access(x) /\ r = release_access_once[x]
  OBVIOUS
<1>8. s \in Seq(Steps) /\ Leads(s, x, v, e) /\ t \in Seq(Steps) /\ Leads(t, x, e, v)
  BY <1>2, <1>5, <1>6, <1>7, StepLeads DEF Ops
<1>9. g \in Seq(Steps) /\ Leads(g, x, w, v)
  BY <1>1, <1>7, WriteLeads
<1>10. r \in Seq(Steps) /\ Leads(r, x, v, w)
  BY <1>1, <1>2, <1>7, OwnReleaseLeads, release_access_onceIs DEF Nodes
<1>11. Leads(g \o s, x, w, e) /\ Leads(t \o r, x, e, w)
  BY <1>8, <1>9, <1>10, LeadsOn
<1>12. begin_jim_edit_mode(x, TRUE) = g \o s /\ end_jim_edit_mode(x, TRUE) = t \o r
  BY <1>7, begin_jim_edit_modeIs
<1> QED BY <1>5, <1>11, <1>12

\* An edit mode leaves alone what x does not need,
LEMMA SparesEdit ==
  ASSUME NEW x \in Posets, NEW z \in Posets, Occurrences(z, x) = 0
  PROVE  Spares(begin_jim_edit_mode(x, TRUE), z) /\ Spares(end_jim_edit_mode(x, TRUE), z)
<1>1. z # x
  BY OnceInItsChain
<1>2. PICK s, t, g, r : /\ s = <<<<"request_edit", x>>>> /\ t = <<<<"release_edit", x>>>>
                        /\ g = get_read_write_access(x) /\ r = release_access_once[x]
  OBVIOUS
<1>3. s \in Seq(Steps) /\ Spares(s, z) /\ t \in Seq(Steps) /\ Spares(t, z)
  BY <1>1, <1>2, SparesStep DEF Ops
<1>4. g \in Seq(Steps) /\ Spares(g, z)
  BY <1>2, SparesWrite
<1>5. r \in Seq(Steps) /\ Spares(r, z)
  BY <1>2, SparesCalls DEF Nodes
<1>6. Spares(g \o s, z) /\ Spares(t \o r, z)
  BY <1>3, <1>4, <1>5, SparesConcat
<1> QED BY <1>2, <1>6, begin_jim_edit_modeIs

\* and takes and gives back levels of what x needs.
LEMMA CarriesEdit ==
  ASSUME NEW x \in Posets, NEW z \in Posets, z # x, NEW br \in Seq(Kinds), NEW n \in Nat,
         AllRead(br) \/ Occurrences(z, x) = 0
  PROVE  /\ Carries(begin_jim_edit_mode(x, TRUE), z, br, n, n + Occurrences(z, x))
         /\ Occurrences(z, x) <= n =>
              Carries(end_jim_edit_mode(x, TRUE), z, br, n, n - Occurrences(z, x))
<1>1. PICK s, t, g, r : /\ s = <<<<"request_edit", x>>>> /\ t = <<<<"release_edit", x>>>>
                        /\ g = get_read_write_access(x) /\ r = release_access_once[x]
  OBVIOUS
<1>2. PICK o : o = Occurrences(z, x)
  OBVIOUS
<1>3. s \in Seq(Steps) /\ Spares(s, z) /\ t \in Seq(Steps) /\ Spares(t, z) /\ x \in Nodes
  BY <1>1, SparesStep DEF Ops, Nodes
<1>4. g \in Seq(Steps) /\ Carries(g, z, br, n, n + o)
  BY <1>1, <1>2, <1>3, CarriesGet
<1>5. Carries(s, z, br, n + o, n + o) /\ Carries(t, z, br, n, n)
  BY <1>3, CarriesSpared
<1>6. Carries(g \o s, z, br, n, n + o)
  BY <1>3, <1>4, <1>5, CarriesConcat
<1>7. ASSUME o <= n PROVE Carries(t \o r, z, br, n, n - o)
  <2>1. r \in Seq(Steps) /\ Carries(r, z, br, n, n - o)
    BY <1>1, <1>2, <1>3, <1>7, CarriesRelease
  <2> QED BY <1>3, <1>5, <2>1, CarriesConcat
<1>8. begin_jim_edit_mode(x, TRUE) = g \o s /\ end_jim_edit_mode(x, TRUE) = t \o r
  BY <1>1, begin_jim_edit_modeIs
<1> QED BY <1>2, <1>6, <1>7, <1>8

\* What is given back in the end leaves the levels as they were.
LEMMA CarriesSettles ==
  ASSUME NEW brs \in Brs, NEW cs \in Brs, NEW la, SettledIn(brs, la), NEW z \in Posets, cs[z] = brs[z],
         NEW s, Carries(s, z, brs[z], LevelsOf(brs, z), LevelsOf(cs, z))
  PROVE  \E b : Leads(s, z, la[z], b) /\ Settles(cs[z], LevelsOf(cs, z), b)
<1>1. Settles(brs[z], LevelsOf(brs, z), la[z])
  BY DEF SettledIn
<1> QED BY <1>1 DEF Carries

\* A poset made after the namespace and what it needs: the namespace and it do not need
\* each other.
LEMMA NamespaceIs ==
  ASSUME NEW x \in Posets, x \notin Chain(Namespace)
  PROVE  /\ x # Namespace /\ Occurrences(x, Namespace) = 0 /\ Occurrences(Namespace, x) = 0
         /\ SchemaOf[x] \in Nodes /\ Occurrences(Namespace, SchemaOf[x]) = 0
         /\ Occurrences(x, SchemaOf[x]) = 0
         /\ \A z \in Posets : z # x => Occurrences(z, x) = Occurrences(z, SchemaOf[x])
<1>1. Namespace \in Posets /\ x \in Nodes /\ Namespace \in Nodes /\ SchemaOf[x] \in Nodes
  BY ConstantsAre DEF Nodes
<1>2. x # Namespace
  BY <1>1, ChainIs
<1>3. Occurrences(x, Namespace) = 0
  BY <1>1, OccurrencesAre
<1>4. ASSUME NEW z \in Posets
      PROVE  Occurrences(z, x) = (IF z = x THEN 1 ELSE 0) + Occurrences(z, SchemaOf[x])
             /\ Occurrences(z, SchemaOf[x]) \in Nat
  <2>1. Occurrences(z, SchemaOf[x]) \in Nat
    BY <1>1, OccurrencesAre
  <2>2. Occurrences(z, x) = (IF z = x THEN 1 ELSE 0) + Occurrences(z, SchemaOf[x])
                            + (IF x = Namespace THEN Occurrences(z, Primitives) ELSE 0)
    BY OccurrencesAre
  <2> QED BY <1>2, <2>1, <2>2
<1>5. \A z \in Posets : z # x => Occurrences(z, x) = Occurrences(z, SchemaOf[x])
  BY <1>4
<1>6. Occurrences(x, SchemaOf[x]) = 0
  BY OnceInItsChain
<1>7. ASSUME NEW y \in Posets, Namespace \in Chain(y) PROVE y = Namespace
  <2> DEFINE G == {w \in Nodes : Namespace \in Chain(w) => w = Namespace}
  <2>1. ASSUME NEW w \in Nodes, Needed[w] \cap Nodes \subseteq G PROVE w \in G
    <3>1. CASE w = NoPoset
      BY <1>1, <3>1, ChainIs
    <3>2. CASE w # NoPoset
      <4>1. w \in Posets /\ Needed[w] = Needs(w) /\ Needs(w) \subseteq Nodes
        BY <3>2, ConstantsAre DEF Nodes, Needed
      <4>2. ASSUME Namespace \in Chain(w), w # Namespace PROVE FALSE
        <5>1. PICK u \in Needs(w) : Namespace \in Chain(u)
          BY <4>1, <4>2, ChainIs
        <5>2. u = Namespace
          BY <2>1, <4>1, <5>1
        <5> QED BY <4>1, <5>1, <5>2, ConstantsAre
      <4> QED BY <4>2
    <3> QED BY <3>1, <3>2
  <2>2. Nodes \subseteq G
    <3> HIDE DEF G
    <3> QED BY <2>1, ConstantsAre, GroundedInduction
  <2> QED BY <1>7, <2>2 DEF Nodes
<1>8. Occurrences(Namespace, x) = 0
  BY <1>1, <1>2, <1>7, OccurrencesAre
<1>9. Occurrences(Namespace, SchemaOf[x]) = 0
  BY <1>1, <1>2, <1>5, <1>8
<1> QED BY <1>1, <1>2, <1>3, <1>5, <1>6, <1>8, <1>9

\* name leaves everything as it was.
LEMMA QuerySettles ==
  ASSUME NEW brs \in Brs, NEW la, SettledIn(brs, la), Bracketed(brs)
  PROVE  name \in Seq(Steps) /\ RunsOut(name, brs, la)
<1>1. PICK g, r : g = get_read_access[Namespace] /\ r = release_access_once[Namespace]
  OBVIOUS
<1>2. Namespace \in Posets /\ Namespace \in Nodes
  BY ConstantsAre DEF Nodes
<1>3. g \in Seq(Steps) /\ r \in Seq(Steps) /\ g \o r \in Seq(Steps) /\ name = g \o r
  BY <1>1, <1>2, get_read_accessIs, release_access_onceIs, ConcatProperties DEF name
<1>4. ASSUME NEW z \in Posets, z # Namespace
      PROVE  \E b : Leads(g \o r, z, la[z], b) /\ Settles(brs[z], LevelsOf(brs, z), b)
  <2>1. PICK n, p : n = LevelsOf(brs, z) /\ p = Occurrences(z, Namespace)
    OBVIOUS
  <2>2. n \in Nat /\ p \in Nat /\ brs[z] \in Seq(Kinds)
    BY <1>2, <2>1, LevelsAre, OccurrencesAre DEF Brs
  <2>3. AllRead(brs[z]) \/ p = 0
    <3>1. p = 0 \/ z \in Chain(Namespace)
      BY <1>2, <2>1, <2>2, OccurrencesAre
    <3> QED BY <1>4, <3>1 DEF Bracketed, Base
  <2>4. Carries(g, z, brs[z], n, n + p)
    BY <1>1, <1>2, <2>1, <2>2, <2>3, CarriesGet
  <2>5. PICK m : m = n + p
    OBVIOUS
  <2>6. m \in Nat /\ p <= m /\ m - p = n
    BY <2>2, <2>5
  <2>7. Carries(r, z, brs[z], m, m - p)
    BY <1>1, <1>2, <2>1, <2>2, <2>3, <2>6, CarriesRelease
  <2>8. Carries(g \o r, z, brs[z], n, n)
    BY <1>3, <2>4, <2>5, <2>6, <2>7, CarriesConcat
  <2> QED BY <2>1, <2>8, CarriesSettles
<1>5. \E b : Leads(g \o r, Namespace, la[Namespace], b) /\ Settles(brs[Namespace], LevelsOf(brs, Namespace), b)
  <2>1. PICK a, n : a = la[Namespace] /\ n = LevelsOf(brs, Namespace)
    OBVIOUS
  <2>2. n \in Nat /\ Settles(brs[Namespace], n, a) /\ a \in LocalState /\ brs[Namespace] \in Seq(Kinds)
    BY <1>2, <2>1, LevelsAre DEF SettledIn, Settles, Brs
  <2>3. Releases(Got(a, 1), a) /\ Got(a, 1) \in LocalState
    BY <2>2, Undoes, GotIs
  <2>4. Leads(g, Namespace, a, Got(a, 1))
    BY <1>1, <1>2, <2>2, GetLeads, OnceInItsChain
  <2>5. Leads(r, Namespace, Got(a, 1), a)
    BY <1>1, <1>2, <2>2, <2>3, OwnReleaseLeads
  <2> QED BY <1>3, <2>1, <2>2, <2>4, <2>5, LeadsOn
<1> QED BY <1>3, <1>4, <1>5 DEF RunsOut

\* new_table leaves everything as it was.
LEMMA CreateSettles ==
  ASSUME NEW brs \in Brs, NEW la, SettledIn(brs, la), NEW x \in Posets, x \notin Chain(Namespace),
         \A z \in Posets : z # Namespace => AllRead(brs[z])
  PROVE  new_table(x) \in Seq(Steps) /\ RunsOut(new_table(x), brs, la)
<1>1. PICK N : N = Namespace
  OBVIOUS
<1>2. PICK g1, b, g2, i, e, r2, r1 :
        /\ g1 = get_read_access[SchemaOf[x]] /\ b = begin_jim_edit_mode(N, TRUE) /\ g2 = get_read_access[x]
        /\ i = <<<<"insert", x>>>> /\ e = end_jim_edit_mode(N, TRUE)
        /\ r2 = release_access_once[x] /\ r1 = release_access_once[SchemaOf[x]]
  OBVIOUS
<1>3. N \in Posets /\ N \in Nodes /\ x \in Nodes /\ x # N /\ SchemaOf[x] \in Nodes
  BY <1>1, ConstantsAre, NamespaceIs DEF Nodes
<1>4. /\ g1 \in Seq(Steps) /\ b \in Seq(Steps) /\ g2 \in Seq(Steps) /\ i \in Seq(Steps) /\ e \in Seq(Steps)
      /\ r1 \in Seq(Steps) /\ r2 \in Seq(Steps)
  <2>1. i \in Seq(Steps)
    BY <1>2, OneStep DEF Ops
  <2> QED BY <1>2, <1>3, <2>1, get_read_accessIs, release_access_onceIs, begin_jim_edit_modeIs
<1>5. new_table(x) = (g1 \o ((((b \o g2) \o i) \o e) \o r2)) \o r1
  BY <1>1, <1>2 DEF new_table, insert_poset
<1>6. /\ b \o g2 \in Seq(Steps) /\ (b \o g2) \o i \in Seq(Steps) /\ ((b \o g2) \o i) \o e \in Seq(Steps)
      /\ (((b \o g2) \o i) \o e) \o r2 \in Seq(Steps)
      /\ g1 \o ((((b \o g2) \o i) \o e) \o r2) \in Seq(Steps)
      /\ (g1 \o ((((b \o g2) \o i) \o e) \o r2)) \o r1 \in Seq(Steps)
  BY <1>4, ConcatProperties
<1>7. ASSUME NEW z \in Posets, z # N
      PROVE  \E c : Leads(new_table(x), z, la[z], c) /\ Settles(brs[z], LevelsOf(brs, z), c)
  <2>1. PICK n, p, q, o : /\ n = LevelsOf(brs, z) /\ p = Occurrences(z, SchemaOf[x])
                          /\ q = Occurrences(z, N) /\ o = Occurrences(z, x)
    OBVIOUS
  <2>2. n \in Nat /\ p \in Nat /\ q \in Nat /\ o \in Nat /\ brs[z] \in Seq(Kinds) /\ AllRead(brs[z])
    BY <1>1, <1>3, <1>7, <2>1, LevelsAre, OccurrencesAre DEF Brs
  <2>3. PICK m1, m2, m3, m4, m5 : m1 = n + p /\ m2 = m1 + q /\ m3 = m2 + o /\ m4 = m3 - q /\ m5 = m4 - o
    OBVIOUS
  <2>4. /\ m1 \in Nat /\ m2 \in Nat /\ m3 \in Nat /\ m4 \in Nat /\ m5 \in Nat
        /\ q <= m3 /\ o <= m4 /\ p <= m5 /\ m5 - p = n
    BY <2>2, <2>3
  <2>5. Carries(g1, z, brs[z], n, m1)
    BY <1>2, <1>3, <2>1, <2>2, <2>3, CarriesGet
  <2>6. Carries(b, z, brs[z], m1, m2)
    BY <1>2, <1>3, <1>7, <2>1, <2>2, <2>3, <2>4, CarriesEdit
  <2>7. Carries(g2, z, brs[z], m2, m3)
    BY <1>2, <1>3, <2>1, <2>2, <2>3, <2>4, CarriesGet
  <2>8. Carries(i, z, brs[z], m3, m3)
    <3>1. Spares(i, z)
      BY <1>2, SparesStep DEF Ops
    <3> QED BY <3>1, CarriesSpared
  <2>9. Carries(e, z, brs[z], m3, m4)
    BY <1>2, <1>3, <1>7, <2>1, <2>2, <2>3, <2>4, CarriesEdit
  <2>10. Carries(r2, z, brs[z], m4, m5)
    BY <1>2, <1>3, <2>1, <2>2, <2>3, <2>4, CarriesRelease
  <2>11. Carries(r1, z, brs[z], m5, n)
    <3>1. Carries(r1, z, brs[z], m5, m5 - p)
      BY <1>2, <1>3, <2>1, <2>2, <2>4, CarriesRelease
    <3> QED BY <2>4, <3>1
  <2>12. Carries(b \o g2, z, brs[z], m1, m3)
    BY <1>4, <2>6, <2>7, CarriesConcat
  <2>13. Carries((b \o g2) \o i, z, brs[z], m1, m3)
    BY <1>4, <1>6, <2>8, <2>12, CarriesConcat
  <2>14. Carries(((b \o g2) \o i) \o e, z, brs[z], m1, m4)
    BY <1>4, <1>6, <2>9, <2>13, CarriesConcat
  <2>15. Carries((((b \o g2) \o i) \o e) \o r2, z, brs[z], m1, m5)
    BY <1>4, <1>6, <2>10, <2>14, CarriesConcat
  <2>16. Carries(g1 \o ((((b \o g2) \o i) \o e) \o r2), z, brs[z], n, m5)
    BY <1>4, <1>6, <2>5, <2>15, CarriesConcat
  <2>17. Carries((g1 \o ((((b \o g2) \o i) \o e) \o r2)) \o r1, z, brs[z], n, n)
    BY <1>4, <1>6, <2>11, <2>16, CarriesConcat
  <2> QED BY <1>5, <2>1, <2>17, CarriesSettles
<1>8. \E c : Leads(new_table(x), N, la[N], c) /\ Settles(brs[N], LevelsOf(brs, N), c)
  <2>1. PICK a : a = la[N]
    OBVIOUS
  <2>2. Settles(brs[N], LevelsOf(brs, N), a) /\ a \in LocalState /\ LevelsOf(brs, N) \in Nat /\ brs[N] \in Seq(Kinds)
    BY <1>3, <2>1, LevelsAre DEF SettledIn, Settles, Brs
  <2>3. PICK w \in LocalState : Leads(b, N, a, w) /\ Leads(e, N, w, a)
    BY <1>2, <1>3, <2>2, Undoes, EditUndone
  <2>4. Spares(g1, N) /\ Spares(r1, N) /\ Spares(g2, N) /\ Spares(r2, N)
    BY <1>1, <1>2, <1>3, NamespaceIs, SparesCalls
  <2>5. Spares(i, N)
    BY <1>2, <1>3, SparesStep DEF Ops
  <2>6. Leads(g1, N, a, a) /\ Leads(r1, N, a, a) /\ Leads(r2, N, a, a) /\ Leads(g2, N, w, w) /\ Leads(i, N, w, w)
    BY <2>2, <2>4, <2>5 DEF Spares
  <2>7. Leads(b \o g2, N, a, w)
    BY <1>4, <2>3, <2>6, LeadsOn
  <2>8. Leads((b \o g2) \o i, N, a, w)
    BY <1>4, <1>6, <2>6, <2>7, LeadsOn
  <2>9. Leads(((b \o g2) \o i) \o e, N, a, a)
    BY <1>4, <1>6, <2>3, <2>8, LeadsOn
  <2>10. Leads((((b \o g2) \o i) \o e) \o r2, N, a, a)
    BY <1>4, <1>6, <2>6, <2>9, LeadsOn
  <2>11. Leads(g1 \o ((((b \o g2) \o i) \o e) \o r2), N, a, a)
    BY <1>4, <1>6, <2>6, <2>10, LeadsOn
  <2>12. Leads((g1 \o ((((b \o g2) \o i) \o e) \o r2)) \o r1, N, a, a)
    BY <1>4, <1>6, <2>6, <2>11, LeadsOn
  <2> QED BY <1>5, <2>1, <2>2, <2>12
<1> QED BY <1>5, <1>6, <1>7, <1>8 DEF RunsOut

\* What the levels of one poset become while steps are made for others that need it.
LEMMA CarriesGot ==
  ASSUME NEW y \in Nodes, NEW z \in Posets, NEW br \in Seq(Kinds), NEW n \in Nat, NEW o,
         o = Occurrences(z, y), AllRead(br) \/ o = 0
  PROVE  /\ o \in Nat
         /\ Carries(get_read_access[y], z, br, n, n + o)
         /\ y \in Posets /\ y # z => Carries(get_read_write_access(y), z, br, n, n + o)
         /\ o <= n => Carries(release_access_once[y], z, br, n, n - o)
BY CarriesGet, CarriesRelease, OccurrencesAre

\* new_jim_state leaves everything as it was.
LEMMA DefineSettles ==
  ASSUME NEW brs \in Brs, NEW la, SettledIn(brs, la), NEW x \in Posets, x \notin Chain(Namespace),
         \A z \in Posets : z # Namespace => AllRead(brs[z]), LevelsOf(brs, x) = 0
  PROVE  new_jim_state(x) \in Seq(Steps) /\ RunsOut(new_jim_state(x), brs, la)
<1>1. PICK N : N = Namespace
  OBVIOUS
<1>2. PICK g, w, b, e, rx, rn :
        /\ g = get_read_access[N] /\ w = get_read_write_access(x) /\ b = begin_jim_edit_mode(x, TRUE)
        /\ e = end_jim_edit_mode(x, TRUE) /\ rx = release_access_once[x] /\ rn = release_access_once[N]
  OBVIOUS
<1>3. N \in Posets /\ N \in Nodes /\ x \in Nodes /\ x # N
  BY <1>1, ConstantsAre, NamespaceIs DEF Nodes
<1>4. /\ g \in Seq(Steps) /\ w \in Seq(Steps) /\ b \in Seq(Steps) /\ e \in Seq(Steps)
      /\ rx \in Seq(Steps) /\ rn \in Seq(Steps)
  <2>1. At("none", 0, 0, 0) \in LocalState
    BY LocalIs
  <2> QED BY <1>2, <1>3, <2>1, WriteLeads, get_read_accessIs, release_access_onceIs, begin_jim_edit_modeIs
<1>5. new_jim_state(x) = ((((g \o w) \o b) \o e) \o rx) \o rn
  BY <1>1, <1>2 DEF new_jim_state
<1>6. /\ g \o w \in Seq(Steps) /\ (g \o w) \o b \in Seq(Steps) /\ ((g \o w) \o b) \o e \in Seq(Steps)
      /\ (((g \o w) \o b) \o e) \o rx \in Seq(Steps)
      /\ ((((g \o w) \o b) \o e) \o rx) \o rn \in Seq(Steps)
  BY <1>4, ConcatProperties
<1>7. ASSUME NEW z \in Posets, z # N, z # x
      PROVE  \E c : Leads(new_jim_state(x), z, la[z], c) /\ Settles(brs[z], LevelsOf(brs, z), c)
  <2>1. PICK n, q, o : n = LevelsOf(brs, z) /\ q = Occurrences(z, N) /\ o = Occurrences(z, x)
    OBVIOUS
  <2>2. n \in Nat /\ q \in Nat /\ o \in Nat /\ brs[z] \in Seq(Kinds) /\ AllRead(brs[z])
    BY <1>1, <1>3, <1>7, <2>1, LevelsAre, OccurrencesAre DEF Brs
  <2>3. PICK m1, m2, m3, m4, m5 : m1 = n + q /\ m2 = m1 + o /\ m3 = m2 + o /\ m4 = m3 - o /\ m5 = m4 - o
    OBVIOUS
  <2>4. /\ m1 \in Nat /\ m2 \in Nat /\ m3 \in Nat /\ m4 \in Nat /\ m5 \in Nat
        /\ o <= m3 /\ o <= m4 /\ q <= m5 /\ m5 - q = n
    BY <2>2, <2>3
  <2>5. Carries(g, z, brs[z], n, m1)
    BY <1>2, <1>3, <2>1, <2>2, <2>3, CarriesGot
  <2>6. Carries(w, z, brs[z], m1, m2)
    BY <1>2, <1>3, <1>7, <2>1, <2>2, <2>3, <2>4, CarriesGot
  <2>7. Carries(b, z, brs[z], m2, m3)
    BY <1>2, <1>3, <1>7, <2>1, <2>2, <2>3, <2>4, CarriesEdit
  <2>8. Carries(e, z, brs[z], m3, m4)
    BY <1>2, <1>3, <1>7, <2>1, <2>2, <2>3, <2>4, CarriesEdit
  <2>9. Carries(rx, z, brs[z], m4, m5)
    BY <1>2, <1>3, <2>1, <2>2, <2>3, <2>4, CarriesGot
  <2>10. Carries(rn, z, brs[z], m5, n)
    <3>1. Carries(rn, z, brs[z], m5, m5 - q)
      BY <1>2, <1>3, <2>1, <2>2, <2>4, CarriesGot
    <3> QED BY <2>4, <3>1
  <2>11. Carries(g \o w, z, brs[z], n, m2)
    BY <1>4, <2>5, <2>6, CarriesConcat
  <2>12. Carries((g \o w) \o b, z, brs[z], n, m3)
    BY <1>4, <1>6, <2>7, <2>11, CarriesConcat
  <2>13. Carries(((g \o w) \o b) \o e, z, brs[z], n, m4)
    BY <1>4, <1>6, <2>8, <2>12, CarriesConcat
  <2>14. Carries((((g \o w) \o b) \o e) \o rx, z, brs[z], n, m5)
    BY <1>4, <1>6, <2>9, <2>13, CarriesConcat
  <2>15. Carries(((((g \o w) \o b) \o e) \o rx) \o rn, z, brs[z], n, n)
    BY <1>4, <1>6, <2>10, <2>14, CarriesConcat
  <2> QED BY <1>5, <2>1, <2>15, CarriesSettles
<1>8. \E c : Leads(new_jim_state(x), N, la[N], c) /\ Settles(brs[N], LevelsOf(brs, N), c)
  <2>1. PICK a : a = la[N]
    OBVIOUS
  <2>2. Settles(brs[N], LevelsOf(brs, N), a) /\ a \in LocalState /\ LevelsOf(brs, N) \in Nat /\ brs[N] \in Seq(Kinds)
    BY <1>3, <2>1, LevelsAre DEF SettledIn, Settles, Brs
  <2>3. Releases(Got(a, 1), a)
    BY <2>2, Undoes
  <2>4. PICK c : c = Got(a, 1)
    OBVIOUS
  <2>5. c \in LocalState /\ Releases(c, a)
    BY <2>2, <2>3, <2>4, GotIs
  <2>6. Leads(g, N, a, c)
    <3>1. Leads(get_read_access[N], N, a, Got(a, Occurrences(N, N)))
      BY <1>3, <2>2, GetLeads
    <3>2. Occurrences(N, N) = 1
      BY <1>3, OnceInItsChain
    <3> QED BY <1>2, <2>4, <3>1, <3>2
  <2>7. Leads(rn, N, c, a)
    BY <1>2, <1>3, <2>2, <2>5, OwnReleaseLeads
  <2>8. Occurrences(N, x) = 0
    BY <1>1, NamespaceIs
  <2>9. Spares(w, N) /\ Spares(b, N) /\ Spares(e, N) /\ Spares(rx, N)
    BY <1>2, <1>3, <2>8, SparesWrite, SparesEdit, SparesCalls
  <2>10. Leads(w, N, c, c) /\ Leads(b, N, c, c) /\ Leads(e, N, c, c) /\ Leads(rx, N, c, c)
    BY <2>5, <2>9 DEF Spares
  <2>11. Leads(g \o w, N, a, c)
    BY <1>4, <2>6, <2>10, LeadsOn
  <2>12. Leads((g \o w) \o b, N, a, c)
    BY <1>4, <1>6, <2>10, <2>11, LeadsOn
  <2>13. Leads(((g \o w) \o b) \o e, N, a, c)
    BY <1>4, <1>6, <2>10, <2>12, LeadsOn
  <2>14. Leads((((g \o w) \o b) \o e) \o rx, N, a, c)
    BY <1>4, <1>6, <2>10, <2>13, LeadsOn
  <2>15. Leads(((((g \o w) \o b) \o e) \o rx) \o rn, N, a, a)
    BY <1>4, <1>6, <2>7, <2>14, LeadsOn
  <2> QED BY <1>5, <2>1, <2>2, <2>15
<1>9. \E c : Leads(new_jim_state(x), x, la[x], c) /\ Settles(brs[x], LevelsOf(brs, x), c)
  <2>1. PICK a : a = la[x]
    OBVIOUS
  <2>2. Settles(brs[x], LevelsOf(brs, x), a) /\ a \in LocalState /\ brs[x] \in Seq(Kinds) /\ AllRead(brs[x])
        /\ LevelsOf(brs, x) \in Nat
    BY <1>1, <1>3, <2>1, LevelsAre DEF SettledIn, Settles, Brs
  <2>3. a.mode = "none" /\ a.depth = 0 /\ a.switch = 0 /\ a.edits = 0
    <3>1. a.depth = 0 /\ a.switch = 0 /\ a.mode = "none"
      BY <2>2 DEF Settles
    <3>2. a.mode # "write" => a.edits = 0
      BY <2>2, LocalIs
    <3> QED BY <3>1, <3>2
  <2>4. PICK c : c = Wrote(a)
    OBVIOUS
  <2>5. c \in LocalState /\ c.mode = "write" /\ c.depth = 1 /\ c.switch = 0 /\ c.edits = 0
    <3>1. c \in LocalState /\ c.mode = "write" /\ c.depth = a.depth + 1 /\ c.switch = a.switch /\ c.edits = a.edits
      BY <2>2, <2>3, <2>4, WroteIs
    <3> QED BY <2>3, <3>1
  <2>6. PICK d : d = Wrote(c)
    OBVIOUS
  <2>7. d \in LocalState /\ d.mode = "write" /\ d.depth = 2 /\ d.switch = 0 /\ d.edits = 0
    <3>1. d \in LocalState /\ d.mode = "write" /\ d.depth = c.depth + 1 /\ d.switch = c.switch /\ d.edits = c.edits
      BY <2>5, <2>6, WroteIs
    <3> QED BY <2>5, <3>1
  <2>8. Releases(c, a) /\ Releases(d, c)
    BY <2>3, <2>5, <2>7 DEF Releases
  <2>9. PICK u \in LocalState : Leads(b, x, c, u) /\ Leads(e, x, u, c)
    BY <1>2, <2>5, <2>6, <2>8, EditUndone
  <2>10. Leads(w, x, a, c)
    BY <1>2, <2>2, <2>4, WriteLeads
  <2>11. Leads(rx, x, c, a)
    BY <1>2, <2>2, <2>5, <2>8, OwnReleaseLeads
  <2>12. Occurrences(x, N) = 0
    BY <1>1, NamespaceIs
  <2>13. Spares(g, x) /\ Spares(rn, x)
    BY <1>2, <1>3, <2>12, SparesCalls
  <2>14. Leads(g, x, a, a) /\ Leads(rn, x, a, a)
    BY <2>2, <2>13 DEF Spares
  <2>15. Leads(g \o w, x, a, c)
    BY <1>4, <2>10, <2>14, LeadsOn
  <2>16. Leads((g \o w) \o b, x, a, u)
    BY <1>4, <1>6, <2>9, <2>15, LeadsOn
  <2>17. Leads(((g \o w) \o b) \o e, x, a, c)
    BY <1>4, <1>6, <2>9, <2>16, LeadsOn
  <2>18. Leads((((g \o w) \o b) \o e) \o rx, x, a, a)
    BY <1>4, <1>6, <2>11, <2>17, LeadsOn
  <2>19. Leads(((((g \o w) \o b) \o e) \o rx) \o rn, x, a, a)
    BY <1>4, <1>6, <2>14, <2>18, LeadsOn
  <2> QED BY <1>5, <2>1, <2>2, <2>19
<1> QED BY <1>5, <1>6, <1>7, <1>8, <1>9 DEF RunsOut

\* delete_poset leaves nothing of x, and of what x needs only what other brackets ask
\* for.
LEMMA DeleteSettles ==
  ASSUME NEW brs \in Brs, NEW cs \in Brs, NEW la, SettledIn(brs, la), Bracketed(brs),
         NEW x \in Posets, x \notin Chain(Namespace),
         \A z \in Posets : z # x => cs[z] = brs[z], cs[x] = << >>,
         \A z \in Posets : z # Namespace /\ z # x => AllRead(brs[z]),
         LevelsOf(brs, x) = OwnOf(brs[x]), NEW t, depth[t][x] = la[x].depth
  PROVE  delete_poset(t, x) \in Seq(Steps) /\ RunsOut(delete_poset(t, x), cs, la) /\ Bracketed(cs)
<1>1. PICK N : N = Namespace
  OBVIOUS
<1>2. PICK d : d = OwnOf(brs[x])
  OBVIOUS
<1>3. d \in Nat /\ depth[t][x] = d /\ brs[x] \in Seq(Kinds) /\ Settles(brs[x], d, la[x])
  <2>1. brs[x] \in Seq(Kinds) /\ Settles(brs[x], d, la[x])
    BY <1>2 DEF Brs, SettledIn
  <2>2. d \in Nat
    BY <1>2, <2>1, CountsAre
  <2>3. la[x].depth = d
    BY <2>1 DEF Settles
  <2> QED BY <2>1, <2>2, <2>3
<1>4. PICK b, w, r, m, e :
        /\ b = begin_jim_edit_mode(N, TRUE) /\ w = get_read_write_access(x)
        /\ r = release_access_once[SchemaOf[x]] /\ m = <<<<"terminate", x>>>>
        /\ e = end_jim_edit_mode(N, TRUE)
  OBVIOUS
<1>5. PICK k : k = d + 1
  OBVIOUS
<1>6. PICK T : T = Times(k, r)
  OBVIOUS
<1>7. N \in Posets /\ N \in Nodes /\ x \in Nodes /\ x # N /\ SchemaOf[x] \in Nodes /\ k \in Nat
  BY <1>1, <1>3, <1>5, ConstantsAre, NamespaceIs DEF Nodes
<1>8. /\ b \in Seq(Steps) /\ w \in Seq(Steps) /\ r \in Seq(Steps) /\ m \in Seq(Steps) /\ e \in Seq(Steps)
      /\ T \in Seq(Steps)
  <2>1. At("none", 0, 0, 0) \in LocalState
    BY LocalIs
  <2>2. m \in Seq(Steps)
    BY <1>4, OneStep DEF Ops
  <2>3. b \in Seq(Steps) /\ w \in Seq(Steps) /\ r \in Seq(Steps) /\ e \in Seq(Steps)
    BY <1>4, <1>7, <2>1, WriteLeads, release_access_onceIs, begin_jim_edit_modeIs
  <2>4. Spares(r, x)
    BY <1>4, <1>7, NamespaceIs, SparesCalls
  <2>5. T \in Seq(Steps)
    BY <1>6, <1>7, <2>3, <2>4, SparesTimes
  <2> QED BY <2>2, <2>3, <2>5
<1>9. delete_poset(t, x) = ((b \o w) \o (T \o m)) \o e
  BY <1>1, <1>3, <1>4, <1>5, <1>6 DEF delete_poset, terminate_access
<1>10. /\ b \o w \in Seq(Steps) /\ T \o m \in Seq(Steps) /\ (b \o w) \o (T \o m) \in Seq(Steps)
       /\ ((b \o w) \o (T \o m)) \o e \in Seq(Steps)
  BY <1>8, ConcatProperties
<1>11. Bracketed(cs)
  BY NothingSettled, CloseKeeps
<1>12. ASSUME NEW z \in Posets, z # N, z # x
       PROVE  \E c : Leads(delete_poset(t, x), z, la[z], c) /\ Settles(cs[z], LevelsOf(cs, z), c)
  <2>1. PICK n, q, o, p : /\ n = LevelsOf(brs, z) /\ q = Occurrences(z, N)
                          /\ o = Occurrences(z, SchemaOf[x]) /\ p = d * o
    OBVIOUS
  <2>2. /\ n \in Nat /\ q \in Nat /\ o \in Nat /\ brs[z] \in Seq(Kinds) /\ AllRead(brs[z])
        /\ Settles(brs[z], n, la[z])
    BY <1>1, <1>7, <1>12, <2>1, LevelsAre, OccurrencesAre DEF Brs, SettledIn
  <2>3. Occurrences(z, x) = o
    BY <1>12, <2>1, NamespaceIs
  <2>4. p \in Nat /\ p <= n /\ LevelsOf(cs, z) = n - p
    <3>1. LevelsOf(cs, z) = n - d * o /\ d * o <= n
      BY <1>2, <2>1, <2>3, LevelsOfNone
    <3>2. d * o \in Nat
      BY <1>3, <2>2
    <3> QED BY <2>1, <3>1, <3>2
  <2>5. k * o = p + o
    <3>1. (d + 1) * o = d * o + o
      BY <1>3, <2>2
    <3> QED BY <1>5, <2>1, <3>1
  <2>6. PICK m1, m2, m3, m4 : m1 = n + q /\ m2 = m1 + o /\ m3 = m2 - (p + o) /\ m4 = m3 - q
    OBVIOUS
  <2>7. /\ m1 \in Nat /\ m2 \in Nat /\ m3 \in Nat /\ m4 \in Nat
        /\ p + o <= m2 /\ q <= m3 /\ m4 = n - p
    BY <2>2, <2>4, <2>6
  <2>8. Carries(b, z, brs[z], n, m1)
    BY <1>4, <1>7, <1>12, <2>1, <2>2, <2>6, CarriesEdit
  <2>9. Carries(w, z, brs[z], m1, m2)
    BY <1>4, <1>7, <1>12, <2>2, <2>3, <2>6, <2>7, CarriesGot
  <2>10. Carries(T, z, brs[z], m2, m3)
    <3>1. k * Occurrences(z, SchemaOf[x]) <= m2
      BY <2>1, <2>5, <2>7
    <3>2. Carries(Times(k, release_access_once[SchemaOf[x]]), z, brs[z], m2, m2 - k * Occurrences(z, SchemaOf[x]))
      BY <1>7, <2>2, <2>7, <3>1, CarriesTimes
    <3>3. m2 - k * Occurrences(z, SchemaOf[x]) = m3
      BY <2>1, <2>5, <2>6
    <3> QED BY <1>4, <1>6, <3>2, <3>3
  <2>11. Carries(m, z, brs[z], m3, m3)
    <3>1. Spares(m, z)
      BY <1>4, <1>12, SparesStep DEF Ops
    <3> QED BY <3>1, CarriesSpared
  <2>12. Carries(e, z, brs[z], m3, m4)
    <3>1. m3 \in Nat /\ q <= m3 /\ (AllRead(brs[z]) \/ q = 0)
      BY <2>2, <2>7
    <3>2. Carries(e, z, brs[z], m3, m3 - q)
      BY <1>4, <1>7, <1>12, <2>1, <2>2, <3>1, CarriesEdit
    <3> QED BY <2>6, <3>2
  <2>13. Carries(b \o w, z, brs[z], n, m2)
    BY <1>8, <2>8, <2>9, CarriesConcat
  <2>14. Carries(T \o m, z, brs[z], m2, m3)
    BY <1>8, <2>10, <2>11, CarriesConcat
  <2>15. Carries((b \o w) \o (T \o m), z, brs[z], n, m3)
    BY <1>10, <2>13, <2>14, CarriesConcat
  <2>16. Carries(((b \o w) \o (T \o m)) \o e, z, brs[z], n, m4)
    BY <1>8, <1>10, <2>12, <2>15, CarriesConcat
  <2>17. \E c : Leads(((b \o w) \o (T \o m)) \o e, z, la[z], c) /\ Settles(brs[z], m4, c)
    BY <2>2, <2>16 DEF Carries
  <2> QED BY <1>9, <1>12, <2>4, <2>7, <2>17
<1>13. \E c : Leads(delete_poset(t, x), N, la[N], c) /\ Settles(cs[N], LevelsOf(cs, N), c)
  <2>1. PICK a : a = la[N]
    OBVIOUS
  <2>2. Settles(brs[N], LevelsOf(brs, N), a) /\ a \in LocalState /\ LevelsOf(brs, N) \in Nat /\ brs[N] \in Seq(Kinds)
    BY <1>7, <2>1, LevelsAre DEF SettledIn, Settles, Brs
  <2>3. PICK u \in LocalState : Leads(b, N, a, u) /\ Leads(e, N, u, a)
    BY <1>4, <1>7, <2>2, Undoes, EditUndone
  <2>4. Occurrences(N, x) = 0 /\ Occurrences(N, SchemaOf[x]) = 0
    BY <1>1, NamespaceIs
  <2>5. Spares(w, N) /\ Spares(T, N) /\ Spares(m, N)
    <3>1. Spares(w, N)
      BY <1>4, <1>7, <2>4, SparesWrite
    <3>2. Spares(r, N)
      BY <1>4, <1>7, <2>4, SparesCalls
    <3>3. Spares(T, N)
      BY <1>6, <1>7, <1>8, <3>2, SparesTimes
    <3>4. Spares(m, N)
      BY <1>4, <1>7, SparesStep DEF Ops
    <3> QED BY <3>1, <3>3, <3>4
  <2>6. Leads(w, N, u, u) /\ Leads(T, N, u, u) /\ Leads(m, N, u, u)
    BY <2>5 DEF Spares
  <2>7. Leads(b \o w, N, a, u)
    BY <1>8, <2>3, <2>6, LeadsOn
  <2>8. Leads(T \o m, N, u, u)
    BY <1>8, <2>6, LeadsOn
  <2>9. Leads((b \o w) \o (T \o m), N, a, u)
    BY <1>10, <2>7, <2>8, LeadsOn
  <2>10. Leads(((b \o w) \o (T \o m)) \o e, N, a, a)
    BY <1>8, <1>10, <2>3, <2>9, LeadsOn
  <2>11. LevelsOf(cs, N) = LevelsOf(brs, N)
    <3>1. LevelsOf(cs, N) = LevelsOf(brs, N) - d * Occurrences(N, x)
      BY <1>2, <1>7, LevelsOfNone
    <3>2. d * 0 = 0 /\ LevelsOf(brs, N) - 0 = LevelsOf(brs, N)
      BY <1>3, <2>2
    <3> QED BY <2>4, <3>1, <3>2
  <2>12. cs[N] = brs[N]
    BY <1>7
  <2> QED BY <1>9, <2>1, <2>2, <2>10, <2>11, <2>12
<1>14. \E c : Leads(delete_poset(t, x), x, la[x], c) /\ Settles(cs[x], LevelsOf(cs, x), c)
  <2>1. PICK a, c, z : a = la[x] /\ c = Wrote(a) /\ z = At("none", 0, 0, 0)
    OBVIOUS
  <2>2. a \in LocalState
    BY <1>3, <2>1 DEF Settles
  <2>3. c \in LocalState /\ c.mode = "write"
    BY <2>1, <2>2, WroteIs
  <2>4. z \in LocalState /\ z.mode = "none" /\ z.depth = 0 /\ z.switch = 0
    <3>1. z \in LocalState
      BY <2>1, LocalIs
    <3> QED BY <2>1, <3>1 DEF At
  <2>5. Moves("terminate", c, z)
    BY <2>3, <2>4 DEF Moves
  <2>6. Leads(m, x, c, z)
    BY <1>4, <2>3, <2>4, <2>5, StepLeads DEF Ops
  <2>7. Leads(w, x, a, c)
    BY <1>4, <2>1, <2>2, WriteLeads
  <2>8. Occurrences(x, N) = 0 /\ Occurrences(x, SchemaOf[x]) = 0
    BY <1>1, NamespaceIs
  <2>9. Spares(b, x) /\ Spares(e, x) /\ Spares(T, x)
    <3>1. Spares(r, x)
      BY <1>4, <1>7, <2>8, SparesCalls
    <3>2. Spares(T, x)
      BY <1>6, <1>7, <1>8, <3>1, SparesTimes
    <3> QED BY <1>4, <1>7, <2>8, <3>2, SparesEdit
  <2>10. Leads(b, x, a, a) /\ Leads(e, x, z, z) /\ Leads(T, x, c, c)
    BY <2>2, <2>3, <2>4, <2>9 DEF Spares
  <2>11. Leads(b \o w, x, a, c)
    BY <1>8, <2>7, <2>10, LeadsOn
  <2>12. Leads(T \o m, x, c, z)
    BY <1>8, <2>6, <2>10, LeadsOn
  <2>13. Leads((b \o w) \o (T \o m), x, a, z)
    BY <1>10, <2>11, <2>12, LeadsOn
  <2>14. Leads(((b \o w) \o (T \o m)) \o e, x, a, z)
    BY <1>8, <1>10, <2>10, <2>13, LeadsOn
  <2>15. LevelsOf(cs, x) = 0
    <3>1. LevelsOf(cs, x) = LevelsOf(brs, x) - d * Occurrences(x, x)
      BY <1>2, LevelsOfNone
    <3>2. Occurrences(x, x) = 1 /\ LevelsOf(brs, x) = d
      BY <1>2, OnceInItsChain
    <3>3. d - d * 1 = 0
      BY <1>3
    <3> QED BY <3>1, <3>2, <3>3
  <2>16. Settles(cs[x], 0, z)
    BY <2>1, NothingSettled
  <2> QED BY <1>9, <2>1, <2>14, <2>15, <2>16
<1>15. delete_poset(t, x) \in Seq(Steps)
  BY <1>9, <1>10
<1> QED BY <1>11, <1>12, <1>13, <1>14, <1>15, <1>1 DEF RunsOut

(***************************************************************************)
(* The threads.                                                            *)
(***************************************************************************)
Has(t, x) == At(mode[t][x], depth[t][x], switch_depth[t][x],
                IF mode[t][x] = "write" THEN jim_edit_depth[x] ELSE 0)
\* What t has, poset by poset.
LocalOf(t) == [x \in Posets |-> Has(t, x)]

\* A writer is alone at its poset.
Exclusive == \A t, u \in Threads, x \in Posets :
  mode[t][x] = "write" /\ u # t => mode[u][x] = "none"

\* What is left of a call leads to what is settled between calls.
CallsSettle == \A t \in Threads :
  RunsOut(todo[t], brackets[t], LocalOf(t)) /\ Bracketed(brackets[t])

\* The inductive invariant.
IInv ==
  /\ TypeOK
  /\ todo \in [Threads -> Seq(Steps)] /\ brackets \in [Threads -> Brs]
  /\ Exclusive /\ EditorWrites /\ CallsSettle

\* The fields of what t has of x.
LEMMA HasIs ==
  ASSUME TypeOK, NEW t \in Threads, NEW x \in Posets
  PROVE  /\ Has(t, x) \in LocalState /\ LocalOf(t)[x] = Has(t, x)
         /\ Has(t, x).mode = mode[t][x] /\ Has(t, x).depth = depth[t][x]
         /\ Has(t, x).switch = switch_depth[t][x]
         /\ Has(t, x).edits = IF mode[t][x] = "write" THEN jim_edit_depth[x] ELSE 0
         /\ mode[t][x] \in {"none", "read", "write"} /\ depth[t][x] \in Nat /\ switch_depth[t][x] \in Nat
         /\ jim_edit_depth[x] \in Nat
<1>1. /\ mode[t][x] \in {"none", "read", "write"} /\ depth[t][x] \in Nat /\ switch_depth[t][x] \in Nat
      /\ jim_edit_depth[x] \in Nat
  BY DEF TypeOK
<1>2. PICK m, d, s, e : /\ m = mode[t][x] /\ d = depth[t][x] /\ s = switch_depth[t][x]
                        /\ e = IF mode[t][x] = "write" THEN jim_edit_depth[x] ELSE 0
  OBVIOUS
<1>3. /\ m \in {"none", "read", "write"} /\ d \in Nat /\ s \in Nat /\ e \in Nat /\ (m # "write" => e = 0)
  BY <1>1, <1>2
<1>4. PICK a : a = At(m, d, s, e)
  OBVIOUS
<1>5. a \in LocalState /\ a.mode = m /\ a.depth = d /\ a.switch = s /\ a.edits = e
  <2>1. a \in LocalState
    BY <1>3, <1>4, LocalIs
  <2> QED BY <1>4, <2>1 DEF At
<1>6. Has(t, x) = a /\ LocalOf(t)[x] = Has(t, x)
  BY <1>2, <1>4 DEF Has, LocalOf
<1> QED BY <1>1, <1>2, <1>5, <1>6

\* Between calls everything is settled.
LEMMA IdleIsSettled ==
  ASSUME IInv, NEW t \in Threads, Idle(t)
  PROVE  SettledIn(brackets[t], LocalOf(t)) /\ Bracketed(brackets[t]) /\ brackets[t] \in Brs
<1>1. RunsOut(<< >>, brackets[t], LocalOf(t)) /\ Bracketed(brackets[t]) /\ brackets[t] \in Brs
  BY DEF IInv, CallsSettle, Idle
<1>2. ASSUME NEW x \in Posets
      PROVE  Settles(brackets[t][x], LevelsOf(brackets[t], x), LocalOf(t)[x])
  <2>1. PICK b : Leads(<< >>, x, LocalOf(t)[x], b) /\ Settles(brackets[t][x], LevelsOf(brackets[t], x), b)
    BY <1>1 DEF RunsOut
  <2>2. b = LocalOf(t)[x]
    BY <2>1, LeadsNowhere
  <2> QED BY <2>1, <2>2
<1> QED BY <1>1, <1>2 DEF SettledIn

\* The first step left of a call and the rest of it.
LEMMA HeadLeads ==
  ASSUME NEW s \in Seq(Steps), s # << >>, NEW op \in Ops, NEW x \in Posets, Head(s) = <<op, x>>
  PROVE  /\ Tail(s) \in Seq(Steps)
         /\ \A z : z # x => \A a, c : Leads(s, z, a, c) => Leads(Tail(s), z, a, c)
         /\ \A a, c : Leads(s, x, a, c) =>
              \E b \in LocalState : Moves(op, a, b) /\ Leads(Tail(s), x, b, c)
<1>1. Tail(s) \in Seq(Steps) /\ Head(s)[1] = op /\ Head(s)[2] = x
  OBVIOUS
<1>2. ASSUME NEW z, z # x, NEW a, NEW c, Leads(s, z, a, c) PROVE Leads(Tail(s), z, a, c)
  <2>1. PICK b \in LocalState : Goes(Head(s), z, a, b) /\ Leads(Tail(s), z, b, c)
    BY <1>2, LeadsFirst
  <2>2. b = a
    BY <1>1, <1>2, <2>1 DEF Goes
  <2> QED BY <2>1, <2>2
<1>3. ASSUME NEW a, NEW c, Leads(s, x, a, c)
      PROVE  \E b \in LocalState : Moves(op, a, b) /\ Leads(Tail(s), x, b, c)
  <2>1. PICK b \in LocalState : Goes(Head(s), x, a, b) /\ Leads(Tail(s), x, b, c)
    BY <1>3, LeadsFirst
  <2>2. Moves(op, a, b)
    BY <1>1, <2>1 DEF Goes
  <2> QED BY <2>1, <2>2
<1> QED BY <1>1, <1>2, <1>3

(***************************************************************************)
(* A step of t on x.                                                       *)
(***************************************************************************)
ChangesOnly(t, x) ==
  /\ \A u \in Threads, z \in Posets : u # t \/ z # x =>
       mode'[u][z] = mode[u][z] /\ depth'[u][z] = depth[u][z] /\ switch_depth'[u][z] = switch_depth[u][z]
  /\ \A z \in Posets \ {x} : jim_edit_depth'[z] = jim_edit_depth[z]
  /\ brackets' = brackets

\* A step that leaves a call which still settles keeps the invariant.
LEMMA StepKeeps ==
  ASSUME IInv, TypeOK', NEW t \in Threads, NEW x \in Posets, ChangesOnly(t, x),
         NEW s \in Seq(Steps), todo' = [todo EXCEPT ![t] = s],
         \A z \in Posets \ {x} : \A a, c : Leads(todo[t], z, a, c) => Leads(s, z, a, c),
         \A c : Leads(todo[t], x, Has(t, x), c) => Leads(s, x, Has(t, x)', c),
         jim_edit_depth'[x] = jim_edit_depth[x] \/ mode[t][x] = "write",
         mode'[t][x] = "write" => \A u \in Threads \ {t} : mode[u][x] = "none",
         mode'[t][x] = "read" => \A u \in Threads \ {t} : mode[u][x] # "write",
         jim_edit_depth'[x] > 0 => mode'[t][x] = "write" \/ \E u \in Threads \ {t} : mode[u][x] = "write"
  PROVE  IInv'
<1>1. TypeOK /\ Exclusive /\ EditorWrites /\ CallsSettle
      /\ todo \in [Threads -> Seq(Steps)] /\ brackets \in [Threads -> Brs]
  BY DEF IInv
<1>2. todo' \in [Threads -> Seq(Steps)] /\ brackets' \in [Threads -> Brs]
  BY <1>1 DEF ChangesOnly
<1>3. Exclusive'
  <2> SUFFICES ASSUME NEW u \in Threads, NEW v \in Threads, NEW z \in Posets, mode'[u][z] = "write", v # u
               PROVE  mode'[v][z] = "none"
    BY DEF Exclusive
  <2>1. CASE z # x
    <3>1. mode'[u][z] = mode[u][z] /\ mode'[v][z] = mode[v][z]
      BY <2>1 DEF ChangesOnly
    <3>2. mode[u][z] = "write" => mode[v][z] = "none"
      BY <1>1 DEF Exclusive
    <3> QED BY <3>1, <3>2
  <2>2. CASE z = x /\ u = t
    BY <2>2 DEF ChangesOnly
  <2>3. CASE z = x /\ u # t
    <3>1. mode[u][x] = "write"
      BY <2>3 DEF ChangesOnly
    <3>2. mode[t][x] = "none" /\ mode'[t][x] \in {"none", "read", "write"}
      BY <1>1, <2>3, <3>1 DEF Exclusive, TypeOK
    <3>3. mode'[t][x] = "none"
      BY <2>3, <3>1, <3>2
    <3>4. v # t => mode[v][x] = "none"
      BY <1>1, <2>3, <3>1 DEF Exclusive
    <3> QED BY <2>3, <3>3, <3>4 DEF ChangesOnly
  <2> QED BY <2>1, <2>2, <2>3
<1>4. EditorWrites'
  <2> SUFFICES ASSUME NEW z \in Posets, jim_edit_depth'[z] > 0
               PROVE  \E u \in Threads : mode'[u][z] = "write"
    BY DEF EditorWrites
  <2>1. CASE z # x
    <3>1. \E u \in Threads : mode[u][z] = "write"
      BY <1>1, <2>1 DEF EditorWrites, ChangesOnly
    <3> QED BY <2>1, <3>1 DEF ChangesOnly
  <2>2. CASE z = x
    BY <2>2 DEF ChangesOnly
  <2> QED BY <2>1, <2>2
<1>5. ASSUME NEW u \in Threads, NEW z \in Posets, u # t \/ z # x
      PROVE  Has(u, z)' = Has(u, z)
  <2>1. mode'[u][z] = mode[u][z] /\ depth'[u][z] = depth[u][z] /\ switch_depth'[u][z] = switch_depth[u][z]
    BY <1>5 DEF ChangesOnly
  <2>2. mode[u][z] = "write" => jim_edit_depth'[z] = jim_edit_depth[z]
    <3>1. CASE z # x
      BY <3>1 DEF ChangesOnly
    <3>2. CASE z = x
      <4>1. mode[t][x] = "write" => mode[u][x] = "none"
        BY <1>1, <1>5, <3>2 DEF Exclusive
      <4> QED BY <3>2, <4>1
    <3> QED BY <3>1, <3>2
  <2> QED BY <2>1, <2>2 DEF Has
<1>6. ASSUME NEW u \in Threads, NEW z \in Posets
      PROVE  \E b : Leads(todo'[u], z, Has(u, z)', b) /\ Settles(brackets[u][z], LevelsOf(brackets[u], z), b)
  <2>1. PICK b : Leads(todo[u], z, Has(u, z), b) /\ Settles(brackets[u][z], LevelsOf(brackets[u], z), b)
    <3>1. RunsOut(todo[u], brackets[u], LocalOf(u)) /\ LocalOf(u)[z] = Has(u, z)
      BY <1>1, HasIs DEF CallsSettle
    <3> QED BY <3>1 DEF RunsOut
  <2>2. CASE u # t
    <3>1. todo'[u] = todo[u] /\ Has(u, z)' = Has(u, z)
      BY <1>1, <1>5, <2>2
    <3> QED BY <2>1, <3>1
  <2>3. CASE u = t
    <3>1. todo'[u] = s
      BY <1>1, <2>3
    <3>2. CASE z # x
      <4>1. Has(u, z)' = Has(u, z)
        BY <1>5, <3>2
      <4>2. Leads(s, z, Has(u, z), b)
        BY <2>1, <2>3, <3>2
      <4> QED BY <2>1, <3>1, <4>1, <4>2
    <3>3. CASE z = x
      BY <2>1, <2>3, <3>1, <3>3
    <3> QED BY <3>2, <3>3
  <2> QED BY <2>2, <2>3
<1>7. CallsSettle'
  <2> SUFFICES ASSUME NEW u \in Threads
               PROVE  RunsOut(todo'[u], brackets'[u], LocalOf(u)') /\ Bracketed(brackets'[u])
    BY DEF CallsSettle
  <2>1. brackets'[u] = brackets[u] /\ Bracketed(brackets[u])
    BY <1>1 DEF ChangesOnly, CallsSettle
  <2>2. \A z \in Posets : LocalOf(u)'[z] = Has(u, z)'
    BY DEF LocalOf
  <2> QED BY <1>6, <2>1, <2>2 DEF RunsOut
<1> QED BY <1>2, <1>3, <1>4, <1>7 DEF IInv

\* A step that is done with: it makes of x what a settling call has it make.
LEMMA DoneKeeps ==
  ASSUME IInv, TypeOK', NEW t \in Threads, NEW x \in Posets, ChangesOnly(t, x),
         NEW op \in Ops, Head1(t, op, x), Done(t),
         \A b \in LocalState : Moves(op, Has(t, x), b) =>
           /\ b.mode = mode'[t][x] /\ b.depth = depth'[t][x] /\ b.switch = switch_depth'[t][x]
           /\ b.mode = "write" => b.edits = jim_edit_depth'[x],
         jim_edit_depth'[x] = jim_edit_depth[x] \/ mode[t][x] = "write",
         mode'[t][x] = "write" => \A u \in Threads \ {t} : mode[u][x] = "none",
         mode'[t][x] = "read" => \A u \in Threads \ {t} : mode[u][x] # "write",
         jim_edit_depth'[x] > 0 => mode'[t][x] = "write" \/ \E u \in Threads \ {t} : mode[u][x] = "write"
  PROVE  IInv'
<1>1. TypeOK /\ todo[t] \in Seq(Steps) /\ todo[t] # << >> /\ Head(todo[t]) = <<op, x>>
  BY DEF IInv, Head1
<1>2. PICK s : s = Tail(todo[t])
  OBVIOUS
<1>3. /\ s \in Seq(Steps)
      /\ \A z : z # x => \A a, c : Leads(todo[t], z, a, c) => Leads(s, z, a, c)
      /\ \A a, c : Leads(todo[t], x, a, c) => \E b \in LocalState : Moves(op, a, b) /\ Leads(s, x, b, c)
  BY <1>1, <1>2, HeadLeads
<1>4. todo' = [todo EXCEPT ![t] = s]
  BY <1>2 DEF Done
<1>5. ASSUME NEW c, Leads(todo[t], x, Has(t, x), c) PROVE Leads(s, x, Has(t, x)', c)
  <2>1. PICK b \in LocalState : Moves(op, Has(t, x), b) /\ Leads(s, x, b, c)
    BY <1>3, <1>5
  <2>2. /\ b.mode = mode'[t][x] /\ b.depth = depth'[t][x] /\ b.switch = switch_depth'[t][x]
        /\ b.edits = IF mode'[t][x] = "write" THEN jim_edit_depth'[x] ELSE 0
    BY <2>1, LocalIs
  <2>3. b = At(b.mode, b.depth, b.switch, b.edits)
    BY LocalIs
  <2>4. Has(t, x)' = b
    BY <2>2, <2>3 DEF Has
  <2> QED BY <2>1, <2>4
<1> QED BY <1>3, <1>4, <1>5, StepKeeps

\* A sequence is its first element and the rest.
LEMMA HeadAndTail ==
  ASSUME NEW S, NEW s \in Seq(S), s # << >>, NEW f \in Seq(S), Len(f) = 1, f[1] = Head(s)
  PROVE  Tail(s) \in Seq(S) /\ f \o Tail(s) = s
<1>1. PICK t : t = Tail(s)
  OBVIOUS
<1>2. /\ t \in Seq(S) /\ Len(s) \in Nat \ {0} /\ Len(t) = Len(s) - 1 /\ Head(s) = s[1]
      /\ \A i \in 1..Len(s) - 1 : t[i] = s[i + 1]
  BY <1>1
<1>3. PICK u : u = f \o t
  OBVIOUS
<1>4. u \in Seq(S) /\ Len(u) = Len(s)
      /\ \A i \in 1..Len(s) : u[i] = IF i <= 1 THEN f[i] ELSE t[i - 1]
  <2>1. u \in Seq(S) /\ Len(u) = Len(f) + Len(t)
        /\ \A i \in 1..Len(f) + Len(t) : u[i] = IF i <= Len(f) THEN f[i] ELSE t[i - Len(f)]
    BY <1>2, <1>3, ConcatProperties
  <2> QED BY <1>2, <2>1
<1>5. ASSUME NEW i \in 1..Len(s) PROVE u[i] = s[i]
  <2>1. CASE i = 1
    BY <1>2, <1>4, <2>1
  <2>2. CASE i # 1
    <3>1. i - 1 \in 1..Len(s) - 1 /\ (i - 1) + 1 = i /\ ~(i <= 1)
      BY <1>2, <2>2
    <3> QED BY <1>2, <1>4, <3>1
  <2> QED BY <2>1, <2>2
<1>6. u = s
  BY <1>4, <1>5, SeqEqual
<1> QED BY <1>1, <1>2, <1>3, <1>6

\* What SetAccess makes of the locks.
LEMMA SetAccessIs ==
  ASSUME TypeOK, NEW t \in Threads, NEW x \in Posets, NEW m \in {"none", "read", "write"},
         NEW d \in Nat, NEW s \in Nat, SetAccess(t, x, m, d, s)
  PROVE  /\ mode' \in [Threads -> [Posets -> {"none", "read", "write"}]]
         /\ depth' \in [Threads -> [Posets -> Nat]] /\ switch_depth' \in [Threads -> [Posets -> Nat]]
         /\ mode'[t][x] = m /\ depth'[t][x] = d /\ switch_depth'[t][x] = s
         /\ \A u \in Threads, z \in Posets : u # t \/ z # x =>
              mode'[u][z] = mode[u][z] /\ depth'[u][z] = depth[u][z] /\ switch_depth'[u][z] = switch_depth[u][z]
<1>1. /\ mode' = [mode EXCEPT ![t][x] = m] /\ depth' = [depth EXCEPT ![t][x] = d]
      /\ switch_depth' = [switch_depth EXCEPT ![t][x] = s]
  BY DEF SetAccess
<1>2. /\ mode \in [Threads -> [Posets -> {"none", "read", "write"}]]
      /\ depth \in [Threads -> [Posets -> Nat]] /\ switch_depth \in [Threads -> [Posets -> Nat]]
  BY DEF TypeOK
<1>3. mode' \in [Threads -> [Posets -> {"none", "read", "write"}]] /\ mode'[t][x] = m
      /\ \A u \in Threads, z \in Posets : u # t \/ z # x => mode'[u][z] = mode[u][z]
  BY <1>1, <1>2
<1>4. depth' \in [Threads -> [Posets -> Nat]] /\ depth'[t][x] = d
      /\ \A u \in Threads, z \in Posets : u # t \/ z # x => depth'[u][z] = depth[u][z]
  BY <1>1, <1>2
<1>5. switch_depth' \in [Threads -> [Posets -> Nat]] /\ switch_depth'[t][x] = s
      /\ \A u \in Threads, z \in Posets : u # t \/ z # x => switch_depth'[u][z] = switch_depth[u][z]
  BY <1>1, <1>2
<1> QED BY <1>3, <1>4, <1>5

\* The next step of a call can be taken from what t has.
LEMMA StepMoves ==
  ASSUME IInv, NEW t \in Threads, NEW x \in Posets, NEW op \in Ops, Head1(t, op, x)
  PROVE  \E b \in LocalState : Moves(op, Has(t, x), b)
<1>1. TypeOK /\ todo[t] \in Seq(Steps) /\ todo[t] # << >> /\ Head(todo[t]) = <<op, x>>
      /\ RunsOut(todo[t], brackets[t], LocalOf(t)) /\ LocalOf(t)[x] = Has(t, x)
  BY HasIs DEF IInv, Head1, CallsSettle
<1>2. PICK c : Leads(todo[t], x, Has(t, x), c)
  BY <1>1 DEF RunsOut
<1> QED BY <1>1, <1>2, HeadLeads

\* A step of get_read_access keeps the invariant.
LEMMA ReadKeeps ==
  ASSUME IInv, NEW t \in Threads, NEW x \in Posets, Read(t, x), UNCHANGED brackets
  PROVE  IInv'
<1>1. PICK op, m, d, s : /\ op = "read" /\ m = (IF mode[t][x] = "none" THEN "read" ELSE mode[t][x])
                         /\ d = depth[t][x] + 1 /\ s = switch_depth[t][x]
  OBVIOUS
<1>2. /\ op \in Ops /\ Head1(t, op, x) /\ Done(t) /\ SetAccess(t, x, m, d, s)
      /\ mode[t][x] # "none" \/ NoWriter(x)
      /\ jim_edit_depth' = jim_edit_depth /\ exists' = exists /\ brackets' = brackets
  BY <1>1 DEF Read, Ops
<1>3. TypeOK /\ Exclusive /\ EditorWrites
  BY DEF IInv
<1>4. /\ Has(t, x).mode = mode[t][x] /\ Has(t, x).depth = depth[t][x] /\ Has(t, x).switch = switch_depth[t][x]
      /\ Has(t, x).edits = (IF mode[t][x] = "write" THEN jim_edit_depth[x] ELSE 0)
      /\ mode[t][x] \in {"none", "read", "write"} /\ depth[t][x] \in Nat /\ s \in Nat
  BY <1>1, <1>3, HasIs
<1>5. m \in {"none", "read", "write"} /\ d \in Nat /\ s \in Nat
  BY <1>1, <1>4
<1>6. /\ mode' \in [Threads -> [Posets -> {"none", "read", "write"}]]
      /\ depth' \in [Threads -> [Posets -> Nat]] /\ switch_depth' \in [Threads -> [Posets -> Nat]]
      /\ mode'[t][x] = m /\ depth'[t][x] = d /\ switch_depth'[t][x] = s
      /\ \A u \in Threads, z \in Posets : u # t \/ z # x =>
           mode'[u][z] = mode[u][z] /\ depth'[u][z] = depth[u][z] /\ switch_depth'[u][z] = switch_depth[u][z]
  BY <1>2, <1>3, <1>5, SetAccessIs
<1>7. TypeOK'
  BY <1>2, <1>3, <1>6 DEF TypeOK
<1>8. ChangesOnly(t, x)
  BY <1>2, <1>6 DEF ChangesOnly
<1>9. ASSUME NEW b \in LocalState, Moves(op, Has(t, x), b)
      PROVE  /\ b.mode = mode'[t][x] /\ b.depth = depth'[t][x] /\ b.switch = switch_depth'[t][x]
             /\ b.mode = "write" => b.edits = jim_edit_depth'[x]
  <2>1. /\ b.mode = IF Has(t, x).mode = "none" THEN "read" ELSE Has(t, x).mode
        /\ b.depth = Has(t, x).depth + 1 /\ b.switch = Has(t, x).switch /\ b.edits = Has(t, x).edits
    BY <1>1, <1>9 DEF Moves, Keeps
  <2> QED BY <1>1, <1>2, <1>4, <1>6, <2>1
<1>10. /\ mode'[t][x] = "write" => \A u \in Threads \ {t} : mode[u][x] = "none"
       /\ mode'[t][x] = "read" => \A u \in Threads \ {t} : mode[u][x] # "write"
  <2>1. CASE mode[t][x] = "none"
    BY <1>1, <1>2, <1>6, <2>1 DEF NoWriter
  <2>2. CASE mode[t][x] # "none"
    <3>1. mode'[t][x] = mode[t][x]
      BY <1>1, <1>6, <2>2
    <3>2. \A u \in Threads \ {t} : mode[u][x] # "write"
      BY <1>3, <2>2 DEF Exclusive
    <3>3. mode[t][x] = "write" => \A u \in Threads \ {t} : mode[u][x] = "none"
      BY <1>3 DEF Exclusive
    <3> QED BY <3>1, <3>2, <3>3
  <2> QED BY <2>1, <2>2
<1>11. jim_edit_depth'[x] > 0 => mode'[t][x] = "write" \/ \E u \in Threads \ {t} : mode[u][x] = "write"
  <2>1. SUFFICES ASSUME jim_edit_depth[x] > 0
                 PROVE  mode'[t][x] = "write" \/ \E u \in Threads \ {t} : mode[u][x] = "write"
    BY <1>2
  <2>2. PICK u \in Threads : mode[u][x] = "write"
    BY <1>3, <2>1 DEF EditorWrites
  <2> QED BY <1>1, <1>6, <2>2
<1>12. jim_edit_depth'[x] = jim_edit_depth[x]
  BY <1>2
<1> QED BY <1>2, <1>7, <1>8, <1>9, <1>10, <1>11, <1>12, DoneKeeps

\* An upgrade that gives read access up keeps it: the write step leads on from there.
LEMMA GiveUpReadKeeps ==
  ASSUME IInv, NEW t \in Threads, NEW x \in Posets, GiveUpRead(t, x), UNCHANGED brackets
  PROVE  IInv'
<1>1. PICK op, m, d : op = "write" /\ m = "none" /\ d = depth[t][x]
  OBVIOUS
<1>2. /\ op \in Ops /\ Head1(t, op, x) /\ mode[t][x] = "read" /\ SetAccess(t, x, m, d, d)
      /\ todo' = todo /\ jim_edit_depth' = jim_edit_depth /\ exists' = exists /\ brackets' = brackets
  BY <1>1 DEF GiveUpRead, Ops
<1>3. TypeOK /\ Exclusive /\ EditorWrites /\ todo \in [Threads -> Seq(Steps)]
  BY DEF IInv
<1>4. /\ Has(t, x).mode = mode[t][x] /\ Has(t, x).depth = depth[t][x] /\ Has(t, x).switch = switch_depth[t][x]
      /\ Has(t, x).edits = (IF mode[t][x] = "write" THEN jim_edit_depth[x] ELSE 0)
      /\ depth[t][x] \in Nat
  BY <1>3, HasIs
<1>5. m \in {"none", "read", "write"} /\ d \in Nat
  BY <1>1, <1>4
<1>6. /\ mode' \in [Threads -> [Posets -> {"none", "read", "write"}]]
      /\ depth' \in [Threads -> [Posets -> Nat]] /\ switch_depth' \in [Threads -> [Posets -> Nat]]
      /\ mode'[t][x] = m /\ depth'[t][x] = d /\ switch_depth'[t][x] = d
      /\ \A u \in Threads, z \in Posets : u # t \/ z # x =>
           mode'[u][z] = mode[u][z] /\ depth'[u][z] = depth[u][z] /\ switch_depth'[u][z] = switch_depth[u][z]
  BY <1>2, <1>3, <1>5, SetAccessIs
<1>7. TypeOK'
  BY <1>2, <1>3, <1>6 DEF TypeOK
<1>8. ChangesOnly(t, x)
  BY <1>2, <1>6 DEF ChangesOnly
<1>9. PICK s : s = todo[t]
  OBVIOUS
<1>10. s \in Seq(Steps) /\ s # << >> /\ Head(s) = <<op, x>> /\ todo' = [todo EXCEPT ![t] = s]
  BY <1>2, <1>3, <1>9 DEF Head1
<1>11. ASSUME NEW c, Leads(todo[t], x, Has(t, x), c) PROVE Leads(s, x, Has(t, x)', c)
  <2>1. PICK a : a = At("none", d, d, 0)
    OBVIOUS
  <2>2. a \in LocalState /\ a.mode = "none" /\ a.depth = d /\ a.switch = d /\ a.edits = 0
    <3>1. a \in LocalState
      BY <1>5, <2>1, LocalIs
    <3> QED BY <2>1, <3>1 DEF At
  <2>3. Has(t, x)' = a
    BY <1>1, <1>6, <2>1 DEF Has
  <2>4. PICK b \in LocalState : Moves(op, Has(t, x), b) /\ Leads(Tail(s), x, b, c)
    BY <1>2, <1>9, <1>10, <1>11, HeadLeads
  <2>5. b.mode = "write" /\ b.depth = d + 1 /\ b.edits = 0 /\ b.switch = d
    BY <1>1, <1>2, <1>4, <2>4 DEF Moves
  <2>6. Moves(op, a, b)
    BY <1>1, <2>2, <2>5 DEF Moves
  <2>7. PICK f : f = <<<<op, x>>>>
    OBVIOUS
  <2>8. Leads(f, x, a, b) /\ f \in Seq(Steps)
    BY <1>2, <2>2, <2>6, <2>7, StepLeads
  <2>9. Tail(s) \in Seq(Steps) /\ f \o Tail(s) = s
    <3>1. Len(f) = 1 /\ f[1] = <<op, x>>
      BY <2>7
    <3> QED BY <1>10, <2>8, <3>1, HeadAndTail
  <2>10. Leads(f \o Tail(s), x, a, c)
    BY <2>4, <2>8, <2>9, LeadsOn
  <2> QED BY <2>3, <2>9, <2>10
<1>12. \A z : z # x => \A a, c : Leads(todo[t], z, a, c) => Leads(s, z, a, c)
  BY <1>9
<1>13. /\ mode'[t][x] = "write" => \A u \in Threads \ {t} : mode[u][x] = "none"
       /\ mode'[t][x] = "read" => \A u \in Threads \ {t} : mode[u][x] # "write"
  BY <1>1, <1>6
<1>14. jim_edit_depth'[x] > 0 => mode'[t][x] = "write" \/ \E u \in Threads \ {t} : mode[u][x] = "write"
  <2>1. SUFFICES ASSUME jim_edit_depth[x] > 0
                 PROVE  \E u \in Threads \ {t} : mode[u][x] = "write"
    BY <1>2
  <2>2. PICK u \in Threads : mode[u][x] = "write"
    BY <1>3, <2>1 DEF EditorWrites
  <2> QED BY <1>2, <2>2
<1>15. jim_edit_depth'[x] = jim_edit_depth[x]
  BY <1>2
<1> QED BY <1>7, <1>8, <1>10, <1>11, <1>12, <1>13, <1>14, <1>15, StepKeeps

\* A step of get_read_write_access keeps it.
LEMMA WriteKeeps ==
  ASSUME IInv, NEW t \in Threads, NEW x \in Posets, Write(t, x), UNCHANGED brackets
  PROVE  IInv'
<1>1. PICK op, m, d, s : op = "write" /\ m = "write" /\ d = depth[t][x] + 1 /\ s = switch_depth[t][x]
  OBVIOUS
<1>2. /\ op \in Ops /\ Head1(t, op, x) /\ Done(t) /\ SetAccess(t, x, m, d, s)
      /\ mode[t][x] = "write" \/ Nobody(x)
      /\ jim_edit_depth' = jim_edit_depth /\ exists' = exists /\ brackets' = brackets
  BY <1>1 DEF Write, Ops
<1>3. TypeOK /\ Exclusive /\ EditorWrites
  BY DEF IInv
<1>4. /\ Has(t, x).mode = mode[t][x] /\ Has(t, x).depth = depth[t][x] /\ Has(t, x).switch = switch_depth[t][x]
      /\ Has(t, x).edits = (IF mode[t][x] = "write" THEN jim_edit_depth[x] ELSE 0)
      /\ mode[t][x] \in {"none", "read", "write"} /\ depth[t][x] \in Nat /\ s \in Nat
      /\ jim_edit_depth[x] \in Nat
  BY <1>1, <1>3, HasIs
<1>5. m \in {"none", "read", "write"} /\ d \in Nat /\ s \in Nat
  BY <1>1, <1>4
<1>6. /\ mode' \in [Threads -> [Posets -> {"none", "read", "write"}]]
      /\ depth' \in [Threads -> [Posets -> Nat]] /\ switch_depth' \in [Threads -> [Posets -> Nat]]
      /\ mode'[t][x] = m /\ depth'[t][x] = d /\ switch_depth'[t][x] = s
      /\ \A u \in Threads, z \in Posets : u # t \/ z # x =>
           mode'[u][z] = mode[u][z] /\ depth'[u][z] = depth[u][z] /\ switch_depth'[u][z] = switch_depth[u][z]
  BY <1>2, <1>3, <1>5, SetAccessIs
<1>7. TypeOK'
  BY <1>2, <1>3, <1>6 DEF TypeOK
<1>8. ChangesOnly(t, x)
  BY <1>2, <1>6 DEF ChangesOnly
<1>9. mode[t][x] # "read" /\ (mode[t][x] # "write" => jim_edit_depth[x] = 0)
  <2>1. CASE mode[t][x] = "write"
    BY <2>1
  <2>2. CASE mode[t][x] # "write"
    <3>1. Nobody(x)
      BY <1>2, <2>2
    <3>2. ~(jim_edit_depth[x] > 0) /\ mode[t][x] = "none"
      BY <1>3, <3>1 DEF EditorWrites, Nobody
    <3> QED BY <1>4, <3>2
  <2> QED BY <2>1, <2>2
<1>10. ASSUME NEW b \in LocalState, Moves(op, Has(t, x), b)
       PROVE  /\ b.mode = mode'[t][x] /\ b.depth = depth'[t][x] /\ b.switch = switch_depth'[t][x]
              /\ b.mode = "write" => b.edits = jim_edit_depth'[x]
  <2>1. /\ b.mode = "write" /\ b.depth = Has(t, x).depth + 1 /\ b.edits = Has(t, x).edits
        /\ b.switch = IF Has(t, x).mode = "read" THEN Has(t, x).depth ELSE Has(t, x).switch
    BY <1>1, <1>10 DEF Moves
  <2>2. b.edits = jim_edit_depth[x]
    BY <1>4, <1>9, <2>1
  <2> QED BY <1>1, <1>2, <1>4, <1>6, <1>9, <2>1, <2>2
<1>11. /\ mode'[t][x] = "write" => \A u \in Threads \ {t} : mode[u][x] = "none"
       /\ mode'[t][x] = "read" => \A u \in Threads \ {t} : mode[u][x] # "write"
  <2>1. \A u \in Threads \ {t} : mode[u][x] = "none"
    BY <1>2, <1>3 DEF Exclusive, Nobody
  <2> QED BY <2>1
<1>12. mode'[t][x] = "write" /\ jim_edit_depth'[x] = jim_edit_depth[x]
  BY <1>1, <1>2, <1>6
<1> QED BY <1>2, <1>7, <1>8, <1>10, <1>11, <1>12, DoneKeeps

\* The release that ends an upgrade is followed by its wait to read again.
LEMMA DowngradeLeads ==
  ASSUME NEW s \in Seq(Steps), NEW x \in Posets, NEW d \in Nat \ {0}, NEW a \in LocalState,
         a = At("none", d, 0, 0), NEW b \in LocalState,
         b.mode = "read", b.depth = d, b.switch = 0, b.edits = 0, NEW r, r = <<<<"regain", x>>>>
  PROVE  /\ r \o s \in Seq(Steps)
         /\ \A c : Leads(s, x, b, c) => Leads(r \o s, x, a, c)
         /\ \A z \in Posets \ {x} : \A e, c : Leads(s, z, e, c) => Leads(r \o s, z, e, c)
<1>1. a.mode = "none" /\ a.depth = d /\ a.switch = 0 /\ a.edits = 0
  BY DEF At
<1>2. Moves("regain", a, b)
  BY <1>1 DEF Moves
<1>3. r \in Seq(Steps) /\ Leads(r, x, a, b)
  BY <1>2, StepLeads DEF Ops
<1>4. r \o s \in Seq(Steps)
  BY <1>3, ConcatProperties
<1>5. ASSUME NEW c, Leads(s, x, b, c) PROVE Leads(r \o s, x, a, c)
  BY <1>3, <1>5, LeadsOn
<1>6. ASSUME NEW z \in Posets \ {x}, NEW e, NEW c, Leads(s, z, e, c) PROVE Leads(r \o s, z, e, c)
  <2>1. e \in LocalState
    <3>1. PICK st \in [0..Len(s) -> LocalState] : st[0] = e
      BY <1>6 DEF Leads
    <3>2. Len(s) \in Nat /\ 0 \in 0..Len(s)
      OBVIOUS
    <3> QED BY <3>1, <3>2
  <2>2. Spares(r, z)
    BY SparesStep DEF Ops
  <2>3. Leads(r, z, e, e)
    BY <2>1, <2>2 DEF Spares
  <2> QED BY <1>3, <1>6, <2>3, LeadsOn
<1> QED BY <1>4, <1>5, <1>6

\* A release keeps it, one that has to wait to read again included.
LEMMA ReleaseKeeps ==
  ASSUME IInv, NEW t \in Threads, NEW x \in Posets, Release(t, x), UNCHANGED brackets
  PROVE  IInv'
<1>1. PICK op, d : op = "release" /\ d = depth[t][x] - 1
  OBVIOUS
<1> DEFINE q == mode[t][x] = "write" /\ d > 0 /\ d = switch_depth[t][x]
<1>2. /\ op \in Ops /\ Head1(t, op, x) /\ mode[t][x] # "none"
      /\ jim_edit_depth' = jim_edit_depth /\ exists' = exists /\ brackets' = brackets
      /\ q => SetAccess(t, x, "none", d, 0) /\ todo' = [todo EXCEPT ![t] = <<<<"regain", x>>>> \o Tail(@)]
      /\ ~q => SetAccess(t, x, IF d = 0 THEN "none" ELSE mode[t][x], d, switch_depth[t][x]) /\ Done(t)
  BY <1>1 DEF Release, Ops
<1>3. TypeOK /\ Exclusive /\ EditorWrites /\ todo \in [Threads -> Seq(Steps)]
  BY DEF IInv
<1>4. PICK a : a = Has(t, x)
  OBVIOUS
<1>5. /\ a \in LocalState
      /\ a.mode = mode[t][x] /\ a.depth = depth[t][x] /\ a.switch = switch_depth[t][x]
      /\ a.edits = (IF mode[t][x] = "write" THEN jim_edit_depth[x] ELSE 0)
      /\ mode[t][x] \in {"none", "read", "write"} /\ depth[t][x] \in Nat /\ switch_depth[t][x] \in Nat
      /\ jim_edit_depth[x] \in Nat
  BY <1>3, <1>4, HasIs
<1>6. \A b \in LocalState : Moves(op, a, b) =>
        /\ b.depth = d /\ b.edits = a.edits
        /\ q => b.mode = "read" /\ b.switch = 0
        /\ ~q => b.mode = (IF d = 0 THEN "none" ELSE mode[t][x]) /\ b.switch = switch_depth[t][x]
        /\ b.depth \in Nat /\ (b.mode # "write" => b.edits = 0)
  <2> SUFFICES ASSUME NEW b \in LocalState, Moves(op, a, b)
               PROVE  /\ b.depth = d /\ b.edits = a.edits
                      /\ q => b.mode = "read" /\ b.switch = 0
                      /\ ~q => b.mode = (IF d = 0 THEN "none" ELSE mode[t][x]) /\ b.switch = switch_depth[t][x]
                      /\ b.depth \in Nat /\ (b.mode # "write" => b.edits = 0)
    OBVIOUS
  <2>1. Releases(a, b)
    BY <1>1 DEF Moves
  <2>2. b.depth = d /\ b.edits = a.edits
    BY <1>1, <1>5, <2>1 DEF Releases
  <2>3. b.depth \in Nat /\ (b.mode # "write" => b.edits = 0)
    BY LocalIs
  <2>4. /\ d = 0 => b.mode = "none" /\ b.switch = a.switch
        /\ d # 0 /\ a.mode = "write" /\ d = a.switch => b.mode = "read" /\ b.switch = 0
        /\ d # 0 /\ ~(a.mode = "write" /\ d = a.switch) => b.mode = a.mode /\ b.switch = a.switch
    BY <2>1, <2>2 DEF Releases
  <2>5. d \in Nat
    BY <2>2, <2>3
  <2>6. q => b.mode = "read" /\ b.switch = 0
    BY <1>5, <2>4, <2>5
  <2>7. ~q => b.mode = (IF d = 0 THEN "none" ELSE mode[t][x]) /\ b.switch = switch_depth[t][x]
    <3>1. CASE d = 0
      BY <1>5, <2>4, <3>1
    <3>2. CASE d # 0
      BY <1>5, <2>4, <2>5, <3>2
    <3> QED BY <3>1, <3>2
  <2> HIDE DEF q
  <2> QED BY <2>2, <2>3, <2>6, <2>7
<1>7. PICK b1 \in LocalState : Moves(op, a, b1)
  BY <1>2, <1>4, StepMoves
<1>8. d \in Nat
  BY <1>6, <1>7
<1>9. q => d \in Nat \ {0}
  BY <1>8
<1> HIDE DEF q
<1>10. jim_edit_depth[x] > 0 => \/ mode[t][x] = "write" /\ a.edits > 0
                                \/ \E u \in Threads \ {t} : mode[u][x] = "write"
  BY <1>3, <1>5 DEF EditorWrites
<1>11. CASE ~q
  <2>1. PICK m, w : m = (IF d = 0 THEN "none" ELSE mode[t][x]) /\ w = switch_depth[t][x]
    OBVIOUS
  <2>2. m \in {"none", "read", "write"} /\ w \in Nat /\ SetAccess(t, x, m, d, w) /\ Done(t)
    BY <1>2, <1>5, <1>11, <2>1
  <2>3. /\ mode' \in [Threads -> [Posets -> {"none", "read", "write"}]]
        /\ depth' \in [Threads -> [Posets -> Nat]] /\ switch_depth' \in [Threads -> [Posets -> Nat]]
        /\ mode'[t][x] = m /\ depth'[t][x] = d /\ switch_depth'[t][x] = w
        /\ \A u \in Threads, z \in Posets : u # t \/ z # x =>
             mode'[u][z] = mode[u][z] /\ depth'[u][z] = depth[u][z] /\ switch_depth'[u][z] = switch_depth[u][z]
    BY <1>3, <1>8, <2>2, SetAccessIs
  <2>4. TypeOK'
    BY <1>2, <1>3, <2>3 DEF TypeOK
  <2>5. ChangesOnly(t, x)
    BY <1>2, <2>3 DEF ChangesOnly
  <2>6. ASSUME NEW b \in LocalState, Moves(op, Has(t, x), b)
        PROVE  /\ b.mode = mode'[t][x] /\ b.depth = depth'[t][x] /\ b.switch = switch_depth'[t][x]
               /\ b.mode = "write" => b.edits = jim_edit_depth'[x]
    <3>1. /\ b.depth = d /\ b.edits = a.edits /\ b.mode = m /\ b.switch = w
      BY <1>4, <1>6, <1>11, <2>1, <2>6
    <3>2. m = "write" => mode[t][x] = "write"
      BY <2>1
    <3> QED BY <1>2, <1>5, <2>3, <3>1, <3>2
  <2>7. /\ mode'[t][x] = "write" => \A u \in Threads \ {t} : mode[u][x] = "none"
        /\ mode'[t][x] = "read" => \A u \in Threads \ {t} : mode[u][x] # "write"
    <3>1. mode'[t][x] = "none" \/ mode'[t][x] = mode[t][x]
      BY <2>1, <2>3
    <3>2. \A u \in Threads \ {t} : mode[u][x] # "write"
      BY <1>2, <1>3 DEF Exclusive
    <3>3. mode[t][x] = "write" => \A u \in Threads \ {t} : mode[u][x] = "none"
      BY <1>3 DEF Exclusive
    <3> QED BY <3>1, <3>2, <3>3
  <2>8. jim_edit_depth'[x] > 0 => mode'[t][x] = "write" \/ \E u \in Threads \ {t} : mode[u][x] = "write"
    <3>1. b1.mode # "write" => a.edits = 0
      BY <1>6, <1>7
    <3>2. b1.mode = mode'[t][x]
      BY <1>4, <1>7, <2>6
    <3>3. 0 > 0 <=> FALSE
      OBVIOUS
    <3> QED BY <1>2, <1>10, <3>1, <3>2, <3>3
  <2>9. jim_edit_depth'[x] = jim_edit_depth[x]
    BY <1>2
  <2> QED BY <1>2, <2>2, <2>4, <2>5, <2>6, <2>7, <2>8, <2>9, DoneKeeps
<1>12. CASE q
  <2>1. PICK m, w : m = "none" /\ w = 0
    OBVIOUS
  <2>2. m \in {"none", "read", "write"} /\ w \in Nat /\ SetAccess(t, x, m, d, w)
    BY <1>2, <1>12, <2>1
  <2>3. /\ mode' \in [Threads -> [Posets -> {"none", "read", "write"}]]
        /\ depth' \in [Threads -> [Posets -> Nat]] /\ switch_depth' \in [Threads -> [Posets -> Nat]]
        /\ mode'[t][x] = m /\ depth'[t][x] = d /\ switch_depth'[t][x] = w
        /\ \A u \in Threads, z \in Posets : u # t \/ z # x =>
             mode'[u][z] = mode[u][z] /\ depth'[u][z] = depth[u][z] /\ switch_depth'[u][z] = switch_depth[u][z]
    BY <1>3, <1>8, <2>2, SetAccessIs
  <2>4. TypeOK'
    BY <1>2, <1>3, <2>3 DEF TypeOK
  <2>5. ChangesOnly(t, x)
    BY <1>2, <2>3 DEF ChangesOnly
  <2>6. PICK r, s : r = <<<<"regain", x>>>> /\ s = Tail(todo[t])
    OBVIOUS
  <2>7. todo' = [todo EXCEPT ![t] = r \o s]
    BY <1>2, <1>12, <2>6
  <2>8. todo[t] \in Seq(Steps) /\ todo[t] # << >> /\ Head(todo[t]) = <<op, x>>
    BY <1>2, <1>3 DEF Head1
  <2>9. /\ s \in Seq(Steps)
        /\ \A z : z # x => \A e, c : Leads(todo[t], z, e, c) => Leads(s, z, e, c)
        /\ \A e, c : Leads(todo[t], x, e, c) => \E b \in LocalState : Moves(op, e, b) /\ Leads(s, x, b, c)
    BY <1>2, <2>6, <2>8, HeadLeads
  <2>10. PICK n : n = At("none", d, 0, 0)
    OBVIOUS
  <2>11. n \in LocalState /\ Has(t, x)' = n
    <3>1. n \in LocalState
      BY <1>8, <2>10, LocalIs
    <3> QED BY <2>1, <2>3, <2>10, <3>1 DEF Has
  <2>12. b1.mode = "read" /\ b1.depth = d /\ b1.switch = 0 /\ b1.edits = 0 /\ a.edits = 0 /\ d \in Nat \ {0}
    BY <1>6, <1>7, <1>8, <1>12, <1>9
  <2>13. /\ r \o s \in Seq(Steps)
         /\ \A c : Leads(s, x, b1, c) => Leads(r \o s, x, n, c)
         /\ \A z \in Posets \ {x} : \A e, c : Leads(s, z, e, c) => Leads(r \o s, z, e, c)
    BY <2>6, <2>9, <2>10, <2>11, <2>12, DowngradeLeads
  <2>14. ASSUME NEW c, Leads(todo[t], x, Has(t, x), c) PROVE Leads(r \o s, x, Has(t, x)', c)
    <3>1. PICK b \in LocalState : Moves(op, a, b) /\ Leads(s, x, b, c)
      BY <1>4, <2>9, <2>14
    <3>2. b.mode = "read" /\ b.depth = d /\ b.switch = 0 /\ b.edits = 0
      BY <1>6, <1>12, <2>12, <3>1
    <3>3. b = b1
      BY <2>12, <3>2, SameLocal
    <3> QED BY <2>11, <2>13, <3>1, <3>3
  <2>15. \A z \in Posets \ {x} : \A e, c : Leads(todo[t], z, e, c) => Leads(r \o s, z, e, c)
    BY <2>9, <2>13
  <2>16. mode'[t][x] = "none" /\ jim_edit_depth'[x] = jim_edit_depth[x]
    BY <1>2, <2>1, <2>3
  <2>17. jim_edit_depth'[x] > 0 => mode'[t][x] = "write" \/ \E u \in Threads \ {t} : mode[u][x] = "write"
    <3>1. 0 > 0 <=> FALSE
      OBVIOUS
    <3> QED BY <1>10, <2>12, <2>16, <3>1
  <2>18. /\ mode'[t][x] = "write" => \A u \in Threads \ {t} : mode[u][x] = "none"
         /\ mode'[t][x] = "read" => \A u \in Threads \ {t} : mode[u][x] # "write"
    BY <2>16
  <2> QED BY <2>4, <2>5, <2>7, <2>13, <2>14, <2>15, <2>16, <2>17, <2>18, StepKeeps
<1> QED BY <1>11, <1>12

\* A reader again: the invariant is kept.
LEMMA RegainKeeps ==
  ASSUME IInv, NEW t \in Threads, NEW x \in Posets, Regain(t, x), UNCHANGED brackets
  PROVE  IInv'
<1>1. PICK op, m, d, s : op = "regain" /\ m = "read" /\ d = depth[t][x] /\ s = 0
  OBVIOUS
<1>2. /\ op \in Ops /\ Head1(t, op, x) /\ Done(t) /\ SetAccess(t, x, m, d, s) /\ NoWriter(x)
      /\ jim_edit_depth' = jim_edit_depth /\ exists' = exists /\ brackets' = brackets
  BY <1>1 DEF Regain, Ops
<1>3. TypeOK /\ Exclusive /\ EditorWrites
  BY DEF IInv
<1>4. Has(t, x).depth = depth[t][x] /\ depth[t][x] \in Nat
  BY <1>3, HasIs
<1>5. m \in {"none", "read", "write"} /\ d \in Nat /\ s \in Nat
  BY <1>1, <1>4
<1>6. /\ mode' \in [Threads -> [Posets -> {"none", "read", "write"}]]
      /\ depth' \in [Threads -> [Posets -> Nat]] /\ switch_depth' \in [Threads -> [Posets -> Nat]]
      /\ mode'[t][x] = m /\ depth'[t][x] = d /\ switch_depth'[t][x] = s
      /\ \A u \in Threads, z \in Posets : u # t \/ z # x =>
           mode'[u][z] = mode[u][z] /\ depth'[u][z] = depth[u][z] /\ switch_depth'[u][z] = switch_depth[u][z]
  BY <1>2, <1>3, <1>5, SetAccessIs
<1>7. TypeOK'
  BY <1>2, <1>3, <1>6 DEF TypeOK
<1>8. ChangesOnly(t, x)
  BY <1>2, <1>6 DEF ChangesOnly
<1>9. ASSUME NEW b \in LocalState, Moves(op, Has(t, x), b)
      PROVE  /\ b.mode = mode'[t][x] /\ b.depth = depth'[t][x] /\ b.switch = switch_depth'[t][x]
             /\ b.mode = "write" => b.edits = jim_edit_depth'[x]
  <2>1. b.mode = "read" /\ b.depth = Has(t, x).depth /\ b.switch = 0
    BY <1>1, <1>9 DEF Moves
  <2> QED BY <1>1, <1>4, <1>6, <2>1
<1>10. /\ mode'[t][x] = "write" => \A u \in Threads \ {t} : mode[u][x] = "none"
       /\ mode'[t][x] = "read" => \A u \in Threads \ {t} : mode[u][x] # "write"
  BY <1>1, <1>2, <1>6 DEF NoWriter
<1>11. jim_edit_depth'[x] = jim_edit_depth[x]
  BY <1>2
<1>12. jim_edit_depth'[x] > 0 => mode'[t][x] = "write" \/ \E u \in Threads \ {t} : mode[u][x] = "write"
  BY <1>2, <1>3, <1>11 DEF EditorWrites, NoWriter
<1> QED BY <1>2, <1>7, <1>8, <1>9, <1>10, <1>11, <1>12, DoneKeeps

\* A change of the edit depth keeps it: only the writer makes one.
LEMMA EditModeKeeps ==
  ASSUME IInv, NEW t \in Threads, NEW x \in Posets, EditMode(t, x), UNCHANGED brackets
  PROVE  IInv'
<1>1. TypeOK /\ Exclusive /\ EditorWrites /\ jim_edit_depth[x] \in Nat
  BY DEF IInv, TypeOK
<1>2. /\ Done(t) /\ mode' = mode /\ depth' = depth /\ switch_depth' = switch_depth /\ exists' = exists
      /\ brackets' = brackets
  BY DEF EditMode, locks
<1>3. PICK a : a = Has(t, x)
  OBVIOUS
<1>4. /\ a.mode = mode[t][x] /\ a.depth = depth[t][x] /\ a.switch = switch_depth[t][x]
      /\ a.edits = (IF mode[t][x] = "write" THEN jim_edit_depth[x] ELSE 0)
  BY <1>1, <1>3, HasIs
<1>5. PICK op, j :
        /\ op \in Ops /\ Head1(t, op, x) /\ jim_edit_depth' = [jim_edit_depth EXCEPT ![x] = j] /\ j \in Nat
        /\ \A b \in LocalState : Moves(op, a, b) =>
             /\ a.mode = "write" /\ b.mode = "write" /\ b.depth = a.depth /\ b.switch = a.switch
             /\ a.edits = jim_edit_depth[x] => b.edits = j
  <2>1. CASE Head1(t, "request_edit", x) /\ jim_edit_depth' = [jim_edit_depth EXCEPT ![x] = @ + 1]
    <3>1. PICK op, j : op = "request_edit" /\ j = jim_edit_depth[x] + 1
      OBVIOUS
    <3>2. /\ op \in Ops /\ Head1(t, op, x) /\ jim_edit_depth' = [jim_edit_depth EXCEPT ![x] = j] /\ j \in Nat
      BY <1>1, <2>1, <3>1 DEF Ops
    <3>3. \A b \in LocalState : Moves(op, a, b) =>
             /\ a.mode = "write" /\ b.mode = "write" /\ b.depth = a.depth /\ b.switch = a.switch
             /\ a.edits = jim_edit_depth[x] => b.edits = j
      BY <3>1 DEF Moves
    <3> QED BY <3>2, <3>3
  <2>2. CASE /\ Head1(t, "release_edit", x) /\ jim_edit_depth[x] > 0
             /\ jim_edit_depth' = [jim_edit_depth EXCEPT ![x] = @ - 1]
    <3>1. PICK op, j : op = "release_edit" /\ j = jim_edit_depth[x] - 1
      OBVIOUS
    <3>2. /\ op \in Ops /\ Head1(t, op, x) /\ jim_edit_depth' = [jim_edit_depth EXCEPT ![x] = j] /\ j \in Nat
      BY <1>1, <2>2, <3>1 DEF Ops
    <3>3. \A b \in LocalState : Moves(op, a, b) =>
             /\ a.mode = "write" /\ b.mode = "write" /\ b.depth = a.depth /\ b.switch = a.switch
             /\ a.edits = jim_edit_depth[x] => b.edits = j
      BY <3>1 DEF Moves
    <3> QED BY <3>2, <3>3
  <2> QED BY <2>1, <2>2 DEF EditMode
<1>6. mode[t][x] = "write"
  BY <1>3, <1>4, <1>5, StepMoves
<1>7. /\ jim_edit_depth' \in [Posets -> Nat] /\ jim_edit_depth'[x] = j
      /\ \A z \in Posets \ {x} : jim_edit_depth'[z] = jim_edit_depth[z]
  BY <1>1, <1>5 DEF TypeOK
<1>8. TypeOK'
  BY <1>1, <1>2, <1>7 DEF TypeOK
<1>9. ChangesOnly(t, x)
  BY <1>2, <1>7 DEF ChangesOnly
<1>10. ASSUME NEW b \in LocalState, Moves(op, Has(t, x), b)
       PROVE  /\ b.mode = mode'[t][x] /\ b.depth = depth'[t][x] /\ b.switch = switch_depth'[t][x]
              /\ b.mode = "write" => b.edits = jim_edit_depth'[x]
  BY <1>2, <1>3, <1>4, <1>5, <1>6, <1>7, <1>10
<1>11. /\ mode'[t][x] = "write" => \A u \in Threads \ {t} : mode[u][x] = "none"
       /\ mode'[t][x] = "read" => \A u \in Threads \ {t} : mode[u][x] # "write"
  BY <1>1, <1>2, <1>6 DEF Exclusive
<1>12. mode'[t][x] = "write"
  BY <1>2, <1>6
<1> QED BY <1>2, <1>5, <1>6, <1>8, <1>9, <1>10, <1>11, <1>12, DoneKeeps

\* An insertion in the namespace keeps it.
LEMMA InsertKeeps ==
  ASSUME IInv, NEW t \in Threads, NEW x \in Posets, Insert(t, x), UNCHANGED brackets
  PROVE  IInv'
<1>1. TypeOK /\ Exclusive /\ EditorWrites
  BY DEF IInv
<1>2. PICK op : op = "insert"
  OBVIOUS
<1>3. /\ op \in Ops /\ Head1(t, op, x) /\ Done(t) /\ mode' = mode /\ depth' = depth
      /\ switch_depth' = switch_depth /\ jim_edit_depth' = jim_edit_depth
      /\ exists' = exists \union {x} /\ brackets' = brackets
  BY <1>2 DEF Insert, locks, Ops
<1>4. TypeOK'
  BY <1>1, <1>3 DEF TypeOK
<1>5. ChangesOnly(t, x)
  BY <1>3 DEF ChangesOnly
<1>6. ASSUME NEW b \in LocalState, Moves(op, Has(t, x), b)
      PROVE  /\ b.mode = mode'[t][x] /\ b.depth = depth'[t][x] /\ b.switch = switch_depth'[t][x]
             /\ b.mode = "write" => b.edits = jim_edit_depth'[x]
  <2>1. b = Has(t, x)
    BY <1>2, <1>6 DEF Moves
  <2>2. /\ Has(t, x).mode = mode[t][x] /\ Has(t, x).depth = depth[t][x] /\ Has(t, x).switch = switch_depth[t][x]
        /\ Has(t, x).edits = (IF mode[t][x] = "write" THEN jim_edit_depth[x] ELSE 0)
    BY <1>1, HasIs
  <2> QED BY <1>3, <2>1, <2>2
<1>7. /\ mode'[t][x] = "write" => \A u \in Threads \ {t} : mode[u][x] = "none"
      /\ mode'[t][x] = "read" => \A u \in Threads \ {t} : mode[u][x] # "write"
  BY <1>1, <1>3 DEF Exclusive
<1>8. jim_edit_depth'[x] > 0 => mode'[t][x] = "write" \/ \E u \in Threads \ {t} : mode[u][x] = "write"
  BY <1>1, <1>3 DEF EditorWrites
<1>9. jim_edit_depth'[x] = jim_edit_depth[x]
  BY <1>3
<1> QED BY <1>3, <1>4, <1>5, <1>6, <1>7, <1>8, <1>9, DoneKeeps

\* The deletion of a state keeps it: its writer is alone there.
LEMMA TerminateKeeps ==
  ASSUME IInv, NEW t \in Threads, NEW x \in Posets, Terminate(t, x), UNCHANGED brackets
  PROVE  IInv'
<1>1. PICK op, m, d, s : op = "terminate" /\ m = "none" /\ d = 0 /\ s = 0
  OBVIOUS
<1>2. /\ op \in Ops /\ Head1(t, op, x) /\ Done(t) /\ SetAccess(t, x, m, d, s)
      /\ jim_edit_depth' = [jim_edit_depth EXCEPT ![x] = 0] /\ exists' = exists \ {x} /\ brackets' = brackets
  BY <1>1 DEF Terminate, Ops
<1>3. TypeOK /\ Exclusive /\ EditorWrites
  BY DEF IInv
<1>4. m \in {"none", "read", "write"} /\ d \in Nat /\ s \in Nat
  BY <1>1
<1>5. /\ mode' \in [Threads -> [Posets -> {"none", "read", "write"}]]
      /\ depth' \in [Threads -> [Posets -> Nat]] /\ switch_depth' \in [Threads -> [Posets -> Nat]]
      /\ mode'[t][x] = m /\ depth'[t][x] = d /\ switch_depth'[t][x] = s
      /\ \A u \in Threads, z \in Posets : u # t \/ z # x =>
           mode'[u][z] = mode[u][z] /\ depth'[u][z] = depth[u][z] /\ switch_depth'[u][z] = switch_depth[u][z]
  BY <1>2, <1>3, <1>4, SetAccessIs
<1>6. /\ jim_edit_depth' \in [Posets -> Nat] /\ jim_edit_depth'[x] = 0
      /\ \A z \in Posets \ {x} : jim_edit_depth'[z] = jim_edit_depth[z]
  BY <1>2, <1>3 DEF TypeOK
<1>7. TypeOK'
  BY <1>2, <1>3, <1>5, <1>6 DEF TypeOK
<1>8. ChangesOnly(t, x)
  BY <1>2, <1>5, <1>6 DEF ChangesOnly
<1>9. \A b \in LocalState : Moves(op, Has(t, x), b) =>
        Has(t, x).mode = "write" /\ b.mode = "none" /\ b.depth = 0 /\ b.switch = 0
  BY <1>1 DEF Moves
<1>10. mode[t][x] = "write"
  <2>1. Has(t, x).mode = mode[t][x]
    BY <1>3, HasIs
  <2>2. \E b \in LocalState : Moves(op, Has(t, x), b)
    BY <1>2, StepMoves
  <2> QED BY <1>9, <2>1, <2>2
<1>11. \A b \in LocalState : Moves(op, Has(t, x), b) =>
         /\ b.mode = mode'[t][x] /\ b.depth = depth'[t][x] /\ b.switch = switch_depth'[t][x]
         /\ b.mode = "write" => b.edits = jim_edit_depth'[x]
  BY <1>1, <1>5, <1>9
<1>12. /\ mode'[t][x] = "write" => \A u \in Threads \ {t} : mode[u][x] = "none"
       /\ mode'[t][x] = "read" => \A u \in Threads \ {t} : mode[u][x] # "write"
  BY <1>1, <1>5
<1>13. ~(jim_edit_depth'[x] > 0)
  <2>1. ~(0 > 0)
    OBVIOUS
  <2> QED BY <1>6, <2>1
<1> QED BY <1>2, <1>7, <1>8, <1>10, <1>11, <1>12, <1>13, DoneKeeps

\* Every step of a call keeps the invariant.
LEMMA StepsKeep ==
  ASSUME IInv, NEW t \in Threads, Step(t)
  PROVE  IInv'
<1>1. UNCHANGED brackets
  BY DEF Step
<1>2. PICK x \in Posets :
        \/ Read(t, x) \/ GiveUpRead(t, x) \/ Write(t, x) \/ Release(t, x) \/ Regain(t, x)
        \/ EditMode(t, x) \/ Insert(t, x) \/ Terminate(t, x)
  BY DEF Step
<1>3. CASE Read(t, x)
  BY <1>1, <1>3, ReadKeeps
<1>4. CASE GiveUpRead(t, x)
  BY <1>1, <1>4, GiveUpReadKeeps
<1>5. CASE Write(t, x)
  BY <1>1, <1>5, WriteKeeps
<1>6. CASE Release(t, x)
  BY <1>1, <1>6, ReleaseKeeps
<1>7. CASE Regain(t, x)
  BY <1>1, <1>7, RegainKeeps
<1>8. CASE EditMode(t, x)
  BY <1>1, <1>8, EditModeKeeps
<1>9. CASE Insert(t, x)
  BY <1>1, <1>9, InsertKeeps
<1>10. CASE Terminate(t, x)
  BY <1>1, <1>10, TerminateKeeps
<1> QED BY <1>2, <1>3, <1>4, <1>5, <1>6, <1>7, <1>8, <1>9, <1>10

\* A call that settles may begin.
LEMMA CallKeeps ==
  ASSUME IInv, NEW t \in Threads, UNCHANGED <<locks, jim_edit_depth, exists>>,
         NEW s \in Seq(Steps), todo' = [todo EXCEPT ![t] = s],
         NEW cs \in Brs, brackets' = [brackets EXCEPT ![t] = cs],
         RunsOut(s, cs, LocalOf(t)), Bracketed(cs)
  PROVE  IInv'
<1>1. TypeOK /\ Exclusive /\ EditorWrites /\ CallsSettle
      /\ todo \in [Threads -> Seq(Steps)] /\ brackets \in [Threads -> Brs]
  BY DEF IInv
<1>2. mode' = mode /\ depth' = depth /\ switch_depth' = switch_depth /\ jim_edit_depth' = jim_edit_depth
      /\ exists' = exists
  BY DEF locks
<1>3. TypeOK' /\ Exclusive' /\ EditorWrites'
  BY <1>1, <1>2 DEF TypeOK, Exclusive, EditorWrites
<1>4. todo' \in [Threads -> Seq(Steps)] /\ brackets' \in [Threads -> Brs]
  BY <1>1
<1>5. \A u \in Threads : LocalOf(u)' = LocalOf(u)
  BY <1>2 DEF LocalOf, Has
<1>6. CallsSettle'
  <2> SUFFICES ASSUME NEW u \in Threads
               PROVE  RunsOut(todo'[u], brackets'[u], LocalOf(u)') /\ Bracketed(brackets'[u])
    BY DEF CallsSettle
  <2>1. CASE u = t
    BY <1>1, <1>5, <2>1
  <2>2. CASE u # t
    BY <1>1, <1>5, <2>2 DEF CallsSettle
  <2> QED BY <2>1, <2>2
<1> QED BY <1>3, <1>4, <1>6 DEF IInv

\* Between calls what t asked and has to release tells what it has.
LEMMA IdleHas ==
  ASSUME IInv, NEW t \in Threads, Idle(t), NEW brs, brs = brackets[t]
  PROVE  /\ brs \in Brs /\ SettledIn(brs, LocalOf(t)) /\ Bracketed(brs)
         /\ \A x \in Posets :
              /\ LocalOf(t)[x].mode = mode[t][x] /\ LocalOf(t)[x].depth = depth[t][x]
              /\ depth[t][x] = LevelsOf(brs, x)
              /\ mode[t][x] = "write" <=> ~AllRead(brs[x])
              /\ mode[t][x] = "none" <=> LevelsOf(brs, x) = 0
              /\ brs[x] # << >> => x \in Holds(t)
              /\ \A y \in Posets : x \in Chain(y) /\ brs[y] # << >> => mode[t][x] # "none"
              /\ mode[t][x] # "none" => \E y \in Posets : x \in Chain(y) /\ brs[y] # << >>
              /\ \A y \in Posets : x \in Chain(y) /\ x # y /\ mode[t][y] # "none" => AllRead(brs[x])
<1>1. brs \in Brs /\ SettledIn(brs, LocalOf(t)) /\ Bracketed(brs)
  BY IdleIsSettled
<1>2. \A x \in Posets : LocalOf(t)[x].mode = mode[t][x] /\ LocalOf(t)[x].depth = depth[t][x]
  BY HasIs DEF IInv
<1>3. ASSUME NEW x \in Posets PROVE depth[t][x] = LevelsOf(brs, x)
  BY <1>1, <1>2 DEF SettledIn, Settles
<1>4. ASSUME NEW x \in Posets
      PROVE  /\ mode[t][x] = "write" <=> ~AllRead(brs[x])
             /\ mode[t][x] = "none" <=> LevelsOf(brs, x) = 0
             /\ \A y \in Posets : x \in Chain(y) /\ brs[y] # << >> => mode[t][x] # "none"
             /\ mode[t][x] # "none" => \E y \in Posets : x \in Chain(y) /\ brs[y] # << >>
             /\ \A y \in Posets : x \in Chain(y) /\ x # y /\ mode[t][y] # "none" => AllRead(brs[x])
  BY <1>1, <1>2, BetweenCalls
<1>5. ASSUME NEW x \in Posets, brs[x] # << >> PROVE x \in Holds(t)
  <2>1. x \in Chain(x)
    BY ChainIs
  <2> QED BY <1>4, <1>5, <2>1 DEF Holds
<1> QED BY <1>1, <1>2, <1>3, <1>4, <1>5

\* A request that does not wait, or may wait.
LEMMA MayAskRead ==
  ASSUME IInv, NEW t \in Threads, Idle(t), NEW brs, brs = brackets[t], NEW x \in Posets,
         "anywhere" \notin Practices, MayAsk(t, x, "read")
  PROVE  \A z \in Chain(x) \ {x} : AllRead(brs[z])
<1>1. Chain(x) \subseteq Posets
  BY ChainIs
<1>2. CASE mode[t][x] # "none"
  BY <1>1, <1>2, IdleHas
<1>3. CASE mode[t][x] = "none"
  <2>1. \A z \in Chain(x) \ {x} : mode[t][z] # "write"
    BY <1>3 DEF MayAsk, Waits, Reachable
  <2> QED BY <1>1, <2>1, IdleHas
<1> QED BY <1>2, <1>3

\* A request to write that does not wait, or may wait: nothing that needs x was asked
\* for.
LEMMA MayAskWrite ==
  ASSUME IInv, NEW t \in Threads, Idle(t), NEW brs, brs = brackets[t], NEW x \in Posets,
         "anywhere" \notin Practices, MayAsk(t, x, "write")
  PROVE  /\ \A z \in Chain(x) \ {x} : AllRead(brs[z])
         /\ x \notin Base /\ \A y \in Posets \ {x} : x \in Chain(y) => brs[y] = << >>
<1>1. Chain(x) \subseteq Posets
  BY ChainIs
<1>2. CASE mode[t][x] = "write"
  <2>1. \A z \in Chain(x) \ {x} : AllRead(brs[z])
    BY <1>1, <1>2, IdleHas
  <2>2. ~AllRead(brs[x]) /\ Bracketed(brs)
    BY <1>2, IdleHas
  <2> QED BY <2>1, <2>2 DEF Bracketed
<1>3. CASE mode[t][x] # "write"
  <2>1. Reachable(t, x) /\ x \notin Base
    BY <1>3 DEF MayAsk, Waits
  <2>2. \A z \in Chain(x) \ {x} : AllRead(brs[z])
    BY <1>1, <2>1, IdleHas DEF Reachable
  <2>3. ASSUME NEW y \in Posets \ {x}, x \in Chain(y), brs[y] # << >> PROVE FALSE
    <3>1. y \in Chain(Namespace) \/ y \in Chain(x)
      BY <2>1, <2>3, IdleHas DEF Reachable
    <3>2. y \notin Chain(x)
      BY <2>3, ChainsAreWays
    <3>3. Namespace \in Posets /\ x \in Chain(Namespace)
      BY <2>3, <3>1, <3>2, ConstantsAre, ChainOfChain
    <3>4. x = Namespace
      BY <2>1, <3>3 DEF Base
    <3> QED BY <3>1, <3>2, <3>4
  <2> QED BY <2>1, <2>2, <2>3
<1> QED BY <1>2, <1>3

\* A query keeps the invariant.
LEMMA QueryKeeps ==
  ASSUME IInv, NEW t \in Threads, Query(t)
  PROVE  IInv'
<1>1. Idle(t) /\ UNCHANGED <<locks, jim_edit_depth, exists>> /\ todo' = [todo EXCEPT ![t] = name]
      /\ brackets' = brackets
  BY DEF Query, Begin
<1>2. PICK brs : brs = brackets[t]
  OBVIOUS
<1>3. brs \in Brs /\ SettledIn(brs, LocalOf(t)) /\ Bracketed(brs)
  BY <1>1, <1>2, IdleHas
<1>4. name \in Seq(Steps) /\ RunsOut(name, brs, LocalOf(t))
  BY <1>3, QuerySettles
<1>5. brackets' = [brackets EXCEPT ![t] = brs]
  BY <1>1, <1>2 DEF IInv
<1> QED BY <1>1, <1>3, <1>4, <1>5, CallKeeps

\* The creation of a table keeps it.
LEMMA CreateKeeps ==
  ASSUME IInv, NEW t \in Threads, NEW x \in Posets, Create(t, x)
  PROVE  IInv'
<1>1. Idle(t) /\ UNCHANGED <<locks, jim_edit_depth, exists>> /\ todo' = [todo EXCEPT ![t] = new_table(x)]
      /\ brackets' = brackets /\ x \in Tables /\ Holds(t) \subseteq Chain(Namespace)
  BY DEF Create, Begin
<1>2. PICK brs : brs = brackets[t]
  OBVIOUS
<1>3. brs \in Brs /\ SettledIn(brs, LocalOf(t)) /\ Bracketed(brs)
  BY <1>1, <1>2, IdleHas
<1>4. x \notin Chain(Namespace)
  BY <1>1, BaseAssumption
<1>5. ASSUME NEW z \in Posets, z # Namespace PROVE AllRead(brs[z])
  <2> SUFFICES ASSUME ~AllRead(brs[z]) PROVE FALSE
    OBVIOUS
  <2>1. z \in Holds(t)
    BY <1>1, <1>2, IdleHas DEF Holds
  <2>2. z \in Base
    BY <1>1, <1>5, <2>1 DEF Base
  <2> QED BY <1>3, <2>2 DEF Bracketed
<1>6. new_table(x) \in Seq(Steps) /\ RunsOut(new_table(x), brs, LocalOf(t))
  BY <1>3, <1>4, <1>5, CreateSettles
<1>7. brackets' = [brackets EXCEPT ![t] = brs]
  BY <1>1, <1>2 DEF IInv
<1> QED BY <1>1, <1>3, <1>6, <1>7, CallKeeps

\* The definition of a schema member keeps it.
LEMMA DefineKeeps ==
  ASSUME IInv, NEW t \in Threads, NEW x \in Posets, Define(t, x)
  PROVE  IInv'
<1>1. Idle(t) /\ UNCHANGED <<locks, jim_edit_depth, exists>> /\ todo' = [todo EXCEPT ![t] = new_jim_state(x)]
      /\ brackets' = brackets /\ mode[t][x] = "none" /\ Holds(t) \subseteq Chain(Namespace)
  BY DEF Define, Begin
<1>2. PICK brs : brs = brackets[t]
  OBVIOUS
<1>3. brs \in Brs /\ SettledIn(brs, LocalOf(t)) /\ Bracketed(brs) /\ LevelsOf(brs, x) = 0
  BY <1>1, <1>2, IdleHas
<1>4. x \notin Chain(Namespace)
  <2>1. PICK y \in Posets : SchemaOf[y] = x
    BY DEF Define
  <2>2. x # Namespace
    BY <2>1, ConstantsAre
  <2> QED BY <2>2 DEF Define, Base
<1>5. ASSUME NEW z \in Posets, z # Namespace PROVE AllRead(brs[z])
  <2> SUFFICES ASSUME ~AllRead(brs[z]) PROVE FALSE
    OBVIOUS
  <2>1. z \in Holds(t)
    BY <1>1, <1>2, IdleHas DEF Holds
  <2>2. z \in Base
    BY <1>1, <1>5, <2>1 DEF Base
  <2> QED BY <1>3, <2>2 DEF Bracketed
<1>6. new_jim_state(x) \in Seq(Steps) /\ RunsOut(new_jim_state(x), brs, LocalOf(t))
  BY <1>3, <1>4, <1>5, DefineSettles
<1>7. brackets' = [brackets EXCEPT ![t] = brs]
  BY <1>1, <1>2 DEF IInv
<1> QED BY <1>1, <1>3, <1>6, <1>7, CallKeeps

\* The deletion of a table keeps it.
LEMMA DeleteKeeps ==
  ASSUME IInv, NEW t \in Threads, NEW x \in Posets, Delete(t, x)
  PROVE  IInv'
<1>1. Idle(t) /\ UNCHANGED <<locks, jim_edit_depth, exists>> /\ todo' = [todo EXCEPT ![t] = delete_poset(t, x)]
      /\ brackets' = [brackets EXCEPT ![t][x] = << >>] /\ x \in Tables
      /\ Holds(t) \subseteq Chain(Namespace) \union Chain(x)
      /\ \A y \in Chain(x) \ {x} : mode[t][y] # "write"
  BY DEF Delete, Begin
<1>2. PICK brs : brs = brackets[t]
  OBVIOUS
<1>3. brs \in Brs /\ SettledIn(brs, LocalOf(t)) /\ Bracketed(brs) /\ depth[t][x] = LocalOf(t)[x].depth
  BY <1>1, <1>2, IdleHas
<1>4. x \notin Chain(Namespace)
  BY <1>1, BaseAssumption
<1>5. PICK cs : cs = [brs EXCEPT ![x] = << >>]
  OBVIOUS
<1>6. cs \in Brs /\ cs[x] = << >> /\ \A z \in Posets : z # x => cs[z] = brs[z]
  <2>1. << >> \in Seq(Kinds)
    OBVIOUS
  <2> QED BY <1>3, <1>5, <2>1 DEF Brs
<1>7. brackets' = [brackets EXCEPT ![t] = cs]
  BY <1>1, <1>2, <1>5 DEF IInv
<1>8. ASSUME NEW z \in Posets, z # Namespace, z # x PROVE AllRead(brs[z])
  <2> SUFFICES ASSUME ~AllRead(brs[z]) PROVE FALSE
    OBVIOUS
  <2>1. mode[t][z] = "write" /\ z \in Holds(t)
    BY <1>1, <1>2, IdleHas DEF Holds
  <2>2. z \in Base
    BY <1>1, <1>8, <2>1 DEF Base
  <2> QED BY <1>3, <2>2 DEF Bracketed
<1>9. LevelsOf(brs, x) = OwnOf(brs[x])
  <2>1. ASSUME NEW y \in Posets \ {x}, x \in Chain(y), brs[y] # << >> PROVE FALSE
    <3>1. y \in Chain(Namespace) \/ y \in Chain(x)
      BY <1>1, <1>2, <2>1, IdleHas
    <3>2. y \notin Chain(x)
      BY <2>1, ChainsAreWays
    <3>3. x \in Chain(Namespace)
      BY <2>1, <3>1, <3>2, ConstantsAre, ChainOfChain
    <3> QED BY <1>4, <3>3
  <2> QED BY <1>3, <2>1, LevelsAre
<1>10. delete_poset(t, x) \in Seq(Steps) /\ RunsOut(delete_poset(t, x), cs, LocalOf(t)) /\ Bracketed(cs)
  BY <1>3, <1>4, <1>6, <1>8, <1>9, DeleteSettles
<1> QED BY <1>1, <1>6, <1>7, <1>10, CallKeeps

\* One bracket more of one poset.
LEMMA OpenIs ==
  ASSUME IInv, NEW t \in Threads, NEW x \in Posets, NEW k \in Kinds, Open(t, x, k), NEW brs, brs = brackets[t]
  PROVE  \E cs \in Brs : /\ brackets' = [brackets EXCEPT ![t] = cs]
                         /\ cs[x] = Append(brs[x], k) /\ \A z \in Posets : z # x => cs[z] = brs[z]
<1>1. brackets \in [Threads -> Brs] /\ brs \in Brs /\ brs[x] \in Seq(Kinds)
  BY DEF IInv, Brs
<1>2. PICK e : e = Append(brs[x], k)
  OBVIOUS
<1>3. e \in Seq(Kinds)
  BY <1>1, <1>2
<1>4. PICK cs : cs = [brs EXCEPT ![x] = e]
  OBVIOUS
<1>5. cs \in Brs /\ cs[x] = e /\ \A z \in Posets : z # x => cs[z] = brs[z]
  BY <1>1, <1>3, <1>4 DEF Brs
<1>6. brackets' = [brackets EXCEPT ![t] = cs]
  BY <1>1, <1>2, <1>4 DEF Open
<1> QED BY <1>2, <1>5, <1>6

\* A client's request keeps the invariant.
LEMMA RequestKeeps ==
  ASSUME IInv, NEW t \in Threads, NEW x \in Posets, Request(t, x), "anywhere" \notin Practices
  PROVE  IInv'
<1>1. Idle(t) /\ UNCHANGED <<locks, jim_edit_depth, exists>>
  BY DEF Request, Begin
<1>2. PICK brs : brs = brackets[t]
  OBVIOUS
<1>3. brs \in Brs /\ SettledIn(brs, LocalOf(t)) /\ Bracketed(brs)
  BY <1>1, <1>2, IdleHas
<1>4. CASE MayAsk(t, x, "read") /\ Begin(t, get_read_access[x]) /\ Open(t, x, "read")
  <2>1. PICK cs \in Brs : /\ brackets' = [brackets EXCEPT ![t] = cs]
                          /\ cs[x] = Append(brs[x], "read") /\ \A z \in Posets : z # x => cs[z] = brs[z]
    BY <1>2, <1>4, OpenIs DEF Kinds
  <2>2. \A z \in Chain(x) \ {x} : AllRead(brs[z])
    BY <1>1, <1>2, <1>4, MayAskRead
  <2>3. PICK s : s = get_read_access[x]
    OBVIOUS
  <2>4. s \in Seq(Steps) /\ RunsOut(s, cs, LocalOf(t)) /\ Bracketed(cs)
    BY <1>3, <2>1, <2>2, <2>3, RequestRead
  <2>5. todo' = [todo EXCEPT ![t] = s]
    BY <1>4, <2>3 DEF Begin
  <2> QED BY <1>1, <2>1, <2>4, <2>5, CallKeeps
<1>5. CASE \E k \in {"write", "edit"} :
             /\ MayAsk(t, x, "write") /\ Open(t, x, k)
             /\ Begin(t, IF k = "edit" THEN begin_jim_edit_mode(x, TRUE) ELSE get_read_write_access(x))
  <2>1. PICK k \in {"write", "edit"} :
             /\ MayAsk(t, x, "write") /\ Open(t, x, k)
             /\ Begin(t, IF k = "edit" THEN begin_jim_edit_mode(x, TRUE) ELSE get_read_write_access(x))
    BY <1>5
  <2>2. k \in Kinds
    BY DEF Kinds
  <2>3. PICK cs \in Brs : /\ brackets' = [brackets EXCEPT ![t] = cs]
                          /\ cs[x] = Append(brs[x], k) /\ \A z \in Posets : z # x => cs[z] = brs[z]
    BY <1>2, <2>1, <2>2, OpenIs
  <2>4. /\ \A z \in Chain(x) \ {x} : AllRead(brs[z])
        /\ x \notin Base /\ \A y \in Posets \ {x} : x \in Chain(y) => brs[y] = << >>
    BY <1>1, <1>2, <2>1, MayAskWrite
  <2>5. PICK s : s = IF k = "edit" THEN begin_jim_edit_mode(x, TRUE) ELSE get_read_write_access(x)
    OBVIOUS
  <2>6. s \in Seq(Steps) /\ RunsOut(s, cs, LocalOf(t)) /\ Bracketed(cs)
    BY <1>3, <2>3, <2>4, <2>5, RequestWrite
  <2>7. todo' = [todo EXCEPT ![t] = s]
    BY <2>1, <2>5 DEF Begin
  <2> QED BY <1>1, <2>3, <2>6, <2>7, CallKeeps
<1>6. CASE mode[t][x] = "write" /\ Begin(t, begin_jim_edit_mode(x, FALSE)) /\ Open(t, x, "inner_edit")
  <2>1. PICK cs \in Brs : /\ brackets' = [brackets EXCEPT ![t] = cs]
                          /\ cs[x] = Append(brs[x], "inner_edit") /\ \A z \in Posets : z # x => cs[z] = brs[z]
    BY <1>2, <1>6, OpenIs DEF Kinds
  <2>2. ~AllRead(brs[x]) /\ \A z \in Chain(x) \ {x} : AllRead(brs[z])
    BY <1>1, <1>2, <1>6, IdleHas, ChainIs
  <2>3. PICK s : s = begin_jim_edit_mode(x, FALSE)
    OBVIOUS
  <2>4. s \in Seq(Steps) /\ RunsOut(s, cs, LocalOf(t)) /\ Bracketed(cs)
    BY <1>3, <2>1, <2>2, <2>3, RequestInnerEdit
  <2>5. todo' = [todo EXCEPT ![t] = s]
    BY <1>6, <2>3 DEF Begin
  <2> QED BY <1>1, <2>1, <2>4, <2>5, CallKeeps
<1>7. CASE MayAsk(t, x, "write") /\ Begin(t, get_read_write_access(x)) /\ Open(t, x, "write")
  BY <1>5, <1>7
<1>8. CASE MayAsk(t, x, "write") /\ Begin(t, begin_jim_edit_mode(x, TRUE)) /\ Open(t, x, "edit")
  BY <1>5, <1>8
<1> QED BY <1>4, <1>6, <1>7, <1>8 DEF Request

\* Own and ToSet, as the proofs count them.
LEMMA OwnIs ==
  ASSUME IInv, NEW t \in Threads, NEW x \in Posets
  PROVE  /\ brackets[t][x] \in Seq(Kinds) /\ Own(t, x) = OwnOf(brackets[t][x])
         /\ ToSet(brackets[t][x]) \ {"read"} # {} <=> ~AllRead(brackets[t][x])
         /\ ToSet(brackets[t][x]) \subseteq {"read", "write"} => EditsOf(brackets[t][x]) = 0
<1>1. PICK br : br = brackets[t][x]
  OBVIOUS
<1>2. br \in Seq(Kinds) /\ DOMAIN br = 1..Len(br) /\ \A i \in DOMAIN br : br[i] \in Kinds
  <2>1. br \in Seq(Kinds)
    BY <1>1 DEF IInv, Brs
  <2> QED BY <2>1
<1>3. {i \in DOMAIN br : br[i] # "inner_edit"} = {i \in DOMAIN br : br[i] \in {"read", "write", "edit"}}
  BY <1>2 DEF Kinds
<1>4. Own(t, x) = OwnOf(br)
  BY <1>1, <1>3 DEF Own, OwnOf, HowMany
<1>5. ToSet(br) = {br[i] : i \in DOMAIN br}
  BY DEF ToSet
<1>6. ToSet(br) \ {"read"} # {} <=> ~AllRead(br)
  BY <1>2, <1>5 DEF AllRead
<1>7. ASSUME ToSet(br) \subseteq {"read", "write"} PROVE EditsOf(br) = 0
  <2>1. PICK K : K = {"edit", "inner_edit"}
    OBVIOUS
  <2>2. \A i \in 1..Len(br) : br[i] \notin K
    BY <1>2, <1>5, <1>7, <2>1
  <2>3. HowMany(K, br) = 0
    BY <1>2, <2>2, HowManyType
  <2> QED BY <2>1, <2>3 DEF EditsOf
<1> QED BY <1>1, <1>2, <1>4, <1>6, <1>7

\* A client's release keeps it.
LEMMA FinishKeeps ==
  ASSUME IInv, NEW t \in Threads, NEW x \in Posets, Finish(t, x)
  PROVE  IInv'
<1>1. Idle(t) /\ UNCHANGED <<locks, jim_edit_depth, exists>> /\ brackets[t][x] # << >>
  BY DEF Finish
<1>2. PICK brs : brs = brackets[t]
  OBVIOUS
<1>3. brs \in Brs /\ SettledIn(brs, LocalOf(t)) /\ Bracketed(brs) /\ brs[x] \in Seq(Kinds)
      /\ brackets \in [Threads -> Brs] /\ LocalOf(t)[x].depth = depth[t][x]
  BY <1>1, <1>2, IdleHas DEF Brs, IInv
<1>4. PICK k : k = Last(brs[x])
  OBVIOUS
<1>5. k \in Kinds /\ Front(brs[x]) \in Seq(Kinds) /\ brs[x] = Append(Front(brs[x]), k)
  BY <1>1, <1>2, <1>3, <1>4, FrontIs
<1>6. ASSUME NEW c \in Seq(Kinds), brackets' = [brackets EXCEPT ![t][x] = c]
      PROVE  \E cs \in Brs : /\ brackets' = [brackets EXCEPT ![t] = cs]
                             /\ cs[x] = c /\ \A z \in Posets : z # x => cs[z] = brs[z]
  <2>1. PICK cs : cs = [brs EXCEPT ![x] = c]
    OBVIOUS
  <2>2. cs \in Brs /\ cs[x] = c /\ \A z \in Posets : z # x => cs[z] = brs[z]
    BY <1>3, <2>1 DEF Brs
  <2>3. brackets' = [brackets EXCEPT ![t] = cs]
    BY <1>2, <1>3, <1>6, <2>1
  <2> QED BY <2>2, <2>3
<1>7. CASE /\ k \in {"read", "write", "edit"} /\ brackets' = [brackets EXCEPT ![t][x] = Front(@)]
           /\ todo' = [todo EXCEPT ![t] = IF k = "edit" THEN end_jim_edit_mode(x, TRUE) ELSE release_access_once[x]]
  <2>1. PICK c : c = Front(brs[x])
    OBVIOUS
  <2>2. c \in Seq(Kinds) /\ brackets' = [brackets EXCEPT ![t][x] = c] /\ brs[x] = Append(c, k)
    BY <1>2, <1>3, <1>5, <1>7, <2>1
  <2>3. PICK cs \in Brs : /\ brackets' = [brackets EXCEPT ![t] = cs]
                          /\ cs[x] = c /\ \A z \in Posets : z # x => cs[z] = brs[z]
    BY <1>6, <2>2
  <2>4. PICK s : s = IF k = "edit" THEN end_jim_edit_mode(x, TRUE) ELSE release_access_once[x]
    OBVIOUS
  <2>5. s \in Seq(Steps) /\ RunsOut(s, cs, LocalOf(t)) /\ Bracketed(cs)
    <3>1. k \in {"read", "write", "edit"} /\ brs[x] = Append(cs[x], k) /\ \A z \in Posets : z # x => cs[z] = brs[z]
      BY <1>7, <2>2, <2>3
    <3>2. PICK la : la = LocalOf(t)
      OBVIOUS
    <3>3. SettledIn(brs, la) /\ Bracketed(brs) /\ brs \in Brs
      BY <1>3, <3>2
    <3>4. s \in Seq(Steps) /\ RunsOut(s, cs, la) /\ Bracketed(cs)
      BY <2>4, <3>1, <3>3, FinishLast
    <3> QED BY <3>2, <3>4
  <2> QED BY <1>1, <1>7, <2>3, <2>4, <2>5, CallKeeps
<1>8. CASE /\ ToSet(brackets[t][x]) \subseteq {"read", "write"} /\ depth[t][x] = Own(t, x)
           /\ todo' = [todo EXCEPT ![t] = release_access(t, x, TRUE)]
           /\ brackets' = [brackets EXCEPT ![t][x] = << >>]
  <2>1. << >> \in Seq(Kinds)
    OBVIOUS
  <2>2. PICK cs \in Brs : /\ brackets' = [brackets EXCEPT ![t] = cs]
                          /\ cs[x] = << >> /\ \A z \in Posets : z # x => cs[z] = brs[z]
    BY <1>6, <1>8, <2>1
  <2>3. EditsOf(brs[x]) = 0 /\ LocalOf(t)[x].depth = OwnOf(brs[x]) /\ brs[x] # << >>
    BY <1>1, <1>2, <1>3, <1>8, OwnIs
  <2>4. PICK s : s = Times(LocalOf(t)[x].depth, release_access_once[x])
    OBVIOUS
  <2>5. s \in Seq(Steps) /\ RunsOut(s, cs, LocalOf(t)) /\ Bracketed(cs)
    BY <1>3, <2>2, <2>3, <2>4, FinishAll
  <2>6. todo' = [todo EXCEPT ![t] = s]
    BY <1>3, <1>8, <2>4 DEF release_access
  <2> QED BY <1>1, <2>2, <2>5, <2>6, CallKeeps
<1>9. CASE /\ k = "inner_edit" /\ brackets' = [brackets EXCEPT ![t][x] = Front(@)]
           /\ todo' = [todo EXCEPT ![t] = end_jim_edit_mode(x, FALSE)]
  <2>1. PICK c : c = Front(brs[x])
    OBVIOUS
  <2>2. c \in Seq(Kinds) /\ brackets' = [brackets EXCEPT ![t][x] = c] /\ brs[x] = Append(c, "inner_edit")
    BY <1>2, <1>3, <1>5, <1>9, <2>1
  <2>3. PICK cs \in Brs : /\ brackets' = [brackets EXCEPT ![t] = cs]
                          /\ cs[x] = c /\ \A z \in Posets : z # x => cs[z] = brs[z]
    BY <1>6, <2>2
  <2>4. PICK s : s = end_jim_edit_mode(x, FALSE)
    OBVIOUS
  <2>5. s \in Seq(Steps) /\ RunsOut(s, cs, LocalOf(t)) /\ Bracketed(cs)
    BY <1>3, <2>2, <2>3, <2>4, FinishInnerEdit
  <2> QED BY <1>1, <1>9, <2>3, <2>4, <2>5, CallKeeps
<1>10. release_access(t, x, FALSE) = release_access_once[x]
  BY TimesOne, release_access_onceIs DEF release_access, Nodes
<1>11. CASE /\ k \in {"read", "write"} /\ todo' = [todo EXCEPT ![t] = release_access(t, x, FALSE)]
            /\ brackets' = [brackets EXCEPT ![t][x] = Front(@)]
  BY <1>7, <1>10, <1>11
<1>12. CASE /\ k \in {"edit", "inner_edit"} /\ todo' = [todo EXCEPT ![t] = end_jim_edit_mode(x, k = "edit")]
            /\ brackets' = [brackets EXCEPT ![t][x] = Front(@)]
  <2>1. CASE k = "edit"
    <3>1. (k = "edit") = TRUE
      BY <2>1
    <3> QED BY <1>7, <1>12, <2>1, <3>1
  <2>2. CASE k = "inner_edit"
    <3>1. (k = "edit") = FALSE
      BY <2>2
    <3> QED BY <1>9, <1>12, <2>2, <3>1
  <2> QED BY <1>12, <2>1, <2>2
<1>13. \/ /\ k \in {"read", "write"} /\ todo' = [todo EXCEPT ![t] = release_access(t, x, FALSE)]
          /\ brackets' = [brackets EXCEPT ![t][x] = Front(@)]
       \/ /\ ToSet(brackets[t][x]) \subseteq {"read", "write"} /\ depth[t][x] = Own(t, x)
          /\ todo' = [todo EXCEPT ![t] = release_access(t, x, TRUE)]
          /\ brackets' = [brackets EXCEPT ![t][x] = << >>]
       \/ /\ k \in {"edit", "inner_edit"} /\ todo' = [todo EXCEPT ![t] = end_jim_edit_mode(x, k = "edit")]
          /\ brackets' = [brackets EXCEPT ![t][x] = Front(@)]
  BY <1>2, <1>4 DEF Finish
<1> QED BY <1>8, <1>11, <1>12, <1>13

\* The invariant holds before anything was asked for.
LEMMA InitHolds ==
  ASSUME Init
  PROVE  IInv
<1>1. TypeOK
  BY PosetsAssumption DEF Init, TypeOK
<1>2. todo \in [Threads -> Seq(Steps)] /\ \A t \in Threads : todo[t] = << >>
  <2>1. << >> \in Seq(Steps)
    OBVIOUS
  <2> QED BY <2>1 DEF Init
<1>3. PICK brs : brs = [x \in Posets |-> << >>]
  OBVIOUS
<1>4. brs \in Brs /\ \A x \in Posets : brs[x] = << >>
  <2>1. << >> \in Seq(Kinds)
    OBVIOUS
  <2> QED BY <1>3, <2>1 DEF Brs
<1>5. brackets \in [Threads -> Brs] /\ \A t \in Threads : brackets[t] = brs
  BY <1>3, <1>4 DEF Init
<1>6. \A t \in Threads, x \in Posets : /\ mode[t][x] = "none" /\ depth[t][x] = 0 /\ switch_depth[t][x] = 0
                                       /\ jim_edit_depth[x] = 0
  BY DEF Init
<1>7. Exclusive /\ EditorWrites
  <2>1. Exclusive
    <3> SUFFICES ASSUME NEW x \in Posets, NEW t \in Threads, NEW u \in Threads \ {t}, mode[t][x] = "write"
                 PROVE  FALSE
      BY DEF Exclusive
    <3> QED BY <1>6
  <2>2. EditorWrites
    <3>1. \A x \in Posets : ~(jim_edit_depth[x] > 0)
      <4>1. \A x \in Posets : jim_edit_depth[x] = 0
        BY DEF Init
      <4>2. ~(0 > 0)
        OBVIOUS
      <4> QED BY <4>1, <4>2
    <3> QED BY <3>1 DEF EditorWrites
  <2> QED BY <2>1, <2>2
<1>8. ASSUME NEW t \in Threads, NEW x \in Posets
      PROVE  LocalOf(t)[x] = At("none", 0, 0, 0) /\ LevelsOf(brs, x) = 0
  <2>1. LocalOf(t)[x] = At("none", 0, 0, 0)
    BY <1>6 DEF LocalOf, Has
  <2>2. LevelsOf(brs, x) = 0
    BY <1>4, LevelsAre
  <2> QED BY <2>1, <2>2
<1>9. CallsSettle
  <2> SUFFICES ASSUME NEW t \in Threads
               PROVE  RunsOut(<< >>, brs, LocalOf(t)) /\ Bracketed(brs)
    BY <1>2, <1>5 DEF CallsSettle
  <2>1. Bracketed(brs)
    BY <1>4, NothingSettled DEF Bracketed
  <2>2. ASSUME NEW x \in Posets
        PROVE  \E b : Leads(<< >>, x, LocalOf(t)[x], b) /\ Settles(brs[x], LevelsOf(brs, x), b)
    <3>1. PICK b : b = At("none", 0, 0, 0)
      OBVIOUS
    <3>2. Settles(<< >>, 0, b)
      BY <3>1, NothingSettled
    <3>3. b \in LocalState
      BY <3>2 DEF Settles
    <3>4. Leads(<< >>, x, b, b)
      BY <3>3, LeadsNowhere
    <3> QED BY <1>4, <1>8, <3>1, <3>2, <3>4
  <2> QED BY <2>1, <2>2 DEF RunsOut
<1> QED BY <1>1, <1>2, <1>5, <1>7, <1>9 DEF IInv

\* Every step keeps it.
LEMMA NextKeeps ==
  ASSUME IInv, [Next]_vars, "anywhere" \notin Practices
  PROVE  IInv'
<1>1. CASE UNCHANGED vars
  <2>1. /\ mode' = mode /\ depth' = depth /\ switch_depth' = switch_depth /\ jim_edit_depth' = jim_edit_depth
        /\ exists' = exists /\ todo' = todo /\ brackets' = brackets
    BY <1>1 DEF vars, locks
  <2>2. \A t \in Threads : LocalOf(t)' = LocalOf(t)
    BY <2>1 DEF LocalOf, Has
  <2>3. TypeOK' /\ Exclusive' /\ EditorWrites'
    BY <2>1 DEF IInv, TypeOK, Exclusive, EditorWrites
  <2>4. CallsSettle'
    BY <2>1, <2>2 DEF IInv, CallsSettle
  <2> QED BY <2>1, <2>3, <2>4 DEF IInv
<1>2. CASE Next
  <2>1. PICK t \in Threads :
          \/ Step(t)
          \/ Query(t)
          \/ \E x \in Posets : Request(t, x) \/ Create(t, x) \/ Define(t, x) \/ Delete(t, x) \/ Finish(t, x)
    BY <1>2 DEF Next
  <2>2. CASE Step(t)
    BY <2>2, StepsKeep
  <2>3. CASE Query(t)
    BY <2>3, QueryKeeps
  <2>4. CASE \E x \in Posets : Request(t, x) \/ Create(t, x) \/ Define(t, x) \/ Delete(t, x) \/ Finish(t, x)
    <3>1. PICK x \in Posets : Request(t, x) \/ Create(t, x) \/ Define(t, x) \/ Delete(t, x) \/ Finish(t, x)
      BY <2>4
    <3>2. CASE Request(t, x)
      BY <3>2, RequestKeeps
    <3>3. CASE Create(t, x)
      BY <3>3, CreateKeeps
    <3>4. CASE Define(t, x)
      BY <3>4, DefineKeeps
    <3>5. CASE Delete(t, x)
      BY <3>5, DeleteKeeps
    <3>6. CASE Finish(t, x)
      BY <3>6, FinishKeeps
    <3> QED BY <3>1, <3>2, <3>3, <3>4, <3>5, <3>6
  <2> QED BY <2>1, <2>2, <2>3, <2>4
<1> QED BY <1>1, <1>2

\* The invariant tells what each thread has between calls.
LEMMA AddsUpHolds ==
  ASSUME IInv
  PROVE  AccessAddsUp
<1> SUFFICES ASSUME NEW t \in Threads, Idle(t), NEW x \in Posets
             PROVE  /\ depth[t][x] = SumFunction([y \in Posets |-> Own(t, y) * Occurrences(x, y)])
                    /\ mode[t][x] = "write" <=> ToSet(brackets[t][x]) \ {"read"} # {}
                    /\ mode[t][x] = "none" <=> depth[t][x] = 0
  BY DEF AccessAddsUp
<1>1. PICK brs : brs = brackets[t]
  OBVIOUS
<1>2. /\ depth[t][x] = LevelsOf(brs, x)
      /\ mode[t][x] = "write" <=> ~AllRead(brs[x])
      /\ mode[t][x] = "none" <=> LevelsOf(brs, x) = 0
  BY <1>1, IdleHas
<1>3. [y \in Posets |-> Own(t, y) * Occurrences(x, y)] = [y \in Posets |-> OwnOf(brs[y]) * Occurrences(x, y)]
  BY <1>1, OwnIs
<1>4. depth[t][x] = SumFunction([y \in Posets |-> Own(t, y) * Occurrences(x, y)])
  BY <1>2, <1>3 DEF LevelsOf
<1>5. mode[t][x] = "write" <=> ToSet(brackets[t][x]) \ {"read"} # {}
  BY <1>1, <1>2, OwnIs
<1>6. mode[t][x] = "none" <=> depth[t][x] = 0
  BY <1>2
<1> QED BY <1>4, <1>5, <1>6

\* The invariant keeps writers away from the schemas of posets in use.
LEMMA SchemaHolds ==
  ASSUME IInv
  PROVE  SchemaLocked
<1> SUFFICES ASSUME NEW t \in Threads, Idle(t), NEW x \in Holds(t), NEW u \in Threads,
                    SchemaOf[x] # NoPoset, mode[u][SchemaOf[x]] = "write"
             PROVE  u = t
  BY DEF SchemaLocked
<1>1. x \in Posets /\ mode[t][x] # "none"
  BY DEF Holds
<1>2. SchemaOf[x] \in Posets /\ SchemaOf[x] \in Chain(x)
  <2>1. SchemaOf[x] \in Posets /\ SchemaOf[x] \in Needs(x)
    BY <1>1, ConstantsAre DEF Nodes
  <2> QED BY <1>1, <2>1, ChainIs
<1>3. PICK brs : brs = brackets[t]
  OBVIOUS
<1>4. PICK y \in Posets : x \in Chain(y) /\ brs[y] # << >>
  BY <1>1, <1>3, IdleHas
<1>5. SchemaOf[x] \in Chain(y)
  BY <1>2, <1>4, ChainOfChain
<1>6. mode[t][SchemaOf[x]] # "none"
  BY <1>2, <1>3, <1>4, <1>5, IdleHas
<1> QED BY <1>2, <1>6 DEF IInv, Exclusive

\* So it holds always.
LEMMA InvariantHolds ==
  ASSUME "anywhere" \notin Practices
  PROVE  Spec => []IInv
<1>1. Init => IInv
  BY InitHolds
<1>2. IInv /\ [Next]_vars => IInv'
  BY NextKeeps
<1> QED BY <1>1, <1>2, PTL DEF Spec

\* The locks, depths and edit depths of the posets stay what they are declared to be: no
\* release or end of an edit mode, of whatever call, brings a depth below zero.
THEOREM PosetAccessTypeOK ==
  ASSUME "anywhere" \notin Practices
  PROVE  Spec => []TypeOK
<1>1. Spec => []IInv
  BY InvariantHolds
<1>2. IInv => TypeOK
  BY DEF IInv
<1> QED BY <1>1, <1>2, PTL

\* Between calls a thread's depth at a poset is what it asked of the poset and of those
\* that depend on it, and it writes exactly the posets it asked to write: the requests
\* and releases of poset_state_handle.cc match on every chain of schemas.
THEOREM PosetAccessAddsUp ==
  ASSUME "anywhere" \notin Practices
  PROVE  Spec => []AccessAddsUp
<1>1. Spec => []IInv
  BY InvariantHolds
<1>2. IInv => AccessAddsUp
  BY AddsUpHolds
<1> QED BY <1>1, <1>2, PTL

\* Nobody writes the schema of a poset that another thread has access to:
\* get_read_access and its releases keep the schemas locked as long as the poset is.
THEOREM PosetAccessSchemaLocked ==
  ASSUME "anywhere" \notin Practices
  PROVE  Spec => []SchemaLocked
<1>1. Spec => []IInv
  BY InvariantHolds
<1>2. IInv => SchemaLocked
  BY SchemaHolds
<1> QED BY <1>1, <1>2, PTL

\* A poset is in jim edit mode only while a thread writes it: begin_jim_edit_mode and
\* end_jim_edit_mode leave no edits behind.
THEOREM PosetAccessEditorWrites ==
  ASSUME "anywhere" \notin Practices
  PROVE  Spec => []EditorWrites
<1>1. Spec => []IInv
  BY InvariantHolds
<1>2. IInv => EditorWrites
  BY DEF IInv
<1> QED BY <1>1, <1>2, PTL

-----------------------------------------------------------------------------
(***************************************************************************)
(* The posets that are gone.  What is left of a call tells, for every      *)
(* table, that its thread neither waits for the table's monitor nor uses   *)
(* it once the table is deleted: the call has the namespace before it      *)
(* waits, and the namespace is what the deletion of a table writes.        *)
(***************************************************************************)
\* Steps that may wait for the monitor.
Asking == {"read", "write", "regain"}
\* Steps that make a table and unmake it.
Turning == {"insert", "terminate"}
\* The step comes among the steps s.
Comes(s, op, x) == \E i \in 1..Len(s) : s[i] = <<op, x>>
\* What the steps do at x.
Does(s, x, K) == \A i \in 1..Len(s) : s[i][2] = x => s[i][1] \in K
\* Nothing asks for x after x was made or unmade.
TurnsLast(s, x) == \A i, j \in 1..Len(s) :
  i < j /\ s[i][2] = x /\ s[i][1] \in Turning /\ s[j][2] = x => s[j][1] \notin Asking \cup Turning
\* Before x is unmade x and the namespace are only asked to be written.
WritesFirst(s, x) == \A i, j \in 1..Len(s) :
  j < i /\ s[i] = <<"terminate", x>> /\ s[j][2] \in {x, Namespace} => s[j][1] \in {"write", "request_edit"}
\* The call neither makes nor unmakes x.
Visits(s, x) == \A op \in Turning : ~Comes(s, op, x)
\* A call that finds x made waits for it at its first step only.
AsksFirst(s, x) == Visits(s, x) => \A i \in 1..Len(s) : s[i][2] = x /\ s[i][1] \in Asking => i = 1
\* The order in which a call comes to x.
InOrder(s, x) ==
  TurnsLast(s, x) /\ WritesFirst(s, x) /\ ~(Comes(s, "write", x) /\ Comes(s, "release", x)) /\ AsksFirst(s, x)
\* While x is gone nobody has it but a call that makes it.
GoneSafe(s, x, m) ==
  /\ m # "write" /\ (m # "none" \/ Comes(s, "read", x) => Comes(s, "insert", x))
  /\ ~Comes(s, "write", x) /\ ~Comes(s, "regain", x) /\ ~Comes(s, "terminate", x)
\* x is unmade by a writer of x and of the namespace.
UnmadeByWriter(s, x, m, n) == \A i \in 1..Len(s) : s[i] = <<"terminate", x>> =>
  /\ n = "write" \/ \E j \in 1..Len(s) : j < i /\ s[j] = <<"write", Namespace>>
  /\ m = "write" \/ \E j \in 1..Len(s) : j < i /\ s[j] = <<"write", x>>
\* Who waits for x has the namespace.
WaitsWithNamespace(s, x, m, n) ==
  Visits(s, x) /\ (\E op \in Asking : Comes(s, op, x)) =>
    n # "none" \/ m = "write" \/ (m # "none" /\ ~Comes(s, "write", x))
\* A writer's release of x that has to wait has the namespace until it is done.
ReleasesWithNamespace(s, x, m, n, d, w) == m = "write" /\ Comes(s, "release", x) =>
  /\ Does(s, Namespace, {}) /\ ~Comes(s, "read", x)
  /\ \/ w = 0 \/ n # "none"
     \/ d # w + 1 /\ \A i \in 1..Len(s) : s[i] = <<"release", x>> => i = Len(s)
(***************************************************************************)
(* What the steps s left of a call may still do to x, given whether x is   *)
(* there (here), the access to x and to the namespace (m, n), the depth at *)
(* x and that of its upgrade (d, w).                                       *)
(***************************************************************************)
Safe(s, x, here, m, n, d, w) ==
  /\ InOrder(s, x)
  /\ IF here THEN ~Comes(s, "insert", x) ELSE GoneSafe(s, x, m)
  /\ UnmadeByWriter(s, x, m, n)
  /\ WaitsWithNamespace(s, x, m, n)
  /\ ReleasesWithNamespace(s, x, m, n, d, w)

\* The places of a sequence's first step and of the rest.
LEMMA TailPlaces ==
  ASSUME NEW s \in Seq(Steps), s # << >>, NEW r, r = Tail(s), NEW h, h = Head(s)
  PROVE  /\ r \in Seq(Steps) /\ Len(s) \in Nat /\ Len(r) = Len(s) - 1 /\ 1 \in 1..Len(s) /\ s[1] = h
         /\ \A i \in 1..Len(r) : i + 1 \in 1..Len(s) /\ s[i + 1] = r[i]
         /\ \A i \in 1..Len(s) : i = 1 \/ (i - 1 \in 1..Len(r) /\ r[i - 1] = s[i])
OBVIOUS

\* What comes in a sequence is the first step or comes in the rest.
LEMMA TailComes ==
  ASSUME NEW s \in Seq(Steps), s # << >>, NEW r, r = Tail(s), NEW h, h = Head(s)
  PROVE  /\ \A op, x : Comes(s, op, x) <=> h = <<op, x>> \/ Comes(r, op, x)
         /\ \A x, K : Does(s, x, K) <=> (h[2] = x => h[1] \in K) /\ Does(r, x, K)
<1>1. /\ Len(s) \in Nat /\ Len(r) = Len(s) - 1 /\ 1 \in 1..Len(s) /\ s[1] = h
      /\ \A i \in 1..Len(r) : i + 1 \in 1..Len(s) /\ s[i + 1] = r[i]
      /\ \A i \in 1..Len(s) : i = 1 \/ (i - 1 \in 1..Len(r) /\ r[i - 1] = s[i])
  BY TailPlaces
<1>2. ASSUME NEW op, NEW x PROVE Comes(s, op, x) <=> h = <<op, x>> \/ Comes(r, op, x)
  <2>1. ASSUME Comes(s, op, x) PROVE h = <<op, x>> \/ Comes(r, op, x)
    <3>1. PICK i \in 1..Len(s) : s[i] = <<op, x>>
      BY <2>1 DEF Comes
    <3>2. CASE i = 1
      BY <1>1, <3>1, <3>2
    <3>3. CASE i # 1
      <4>1. i - 1 \in 1..Len(r) /\ r[i - 1] = <<op, x>>
        BY <1>1, <3>1, <3>3
      <4> QED BY <4>1 DEF Comes
    <3> QED BY <3>2, <3>3
  <2>2. ASSUME h = <<op, x>> \/ Comes(r, op, x) PROVE Comes(s, op, x)
    <3>1. CASE h = <<op, x>>
      BY <1>1, <3>1 DEF Comes
    <3>2. CASE Comes(r, op, x)
      <4>1. PICK i \in 1..Len(r) : r[i] = <<op, x>>
        BY <3>2 DEF Comes
      <4> QED BY <1>1, <4>1 DEF Comes
    <3> QED BY <2>2, <3>1, <3>2
  <2> QED BY <2>1, <2>2
<1>3. ASSUME NEW x, NEW K PROVE Does(s, x, K) <=> (h[2] = x => h[1] \in K) /\ Does(r, x, K)
  <2>1. ASSUME Does(s, x, K) PROVE (h[2] = x => h[1] \in K) /\ Does(r, x, K)
    <3>1. ASSUME NEW i \in 1..Len(r), r[i][2] = x PROVE r[i][1] \in K
      BY <1>1, <2>1, <3>1 DEF Does
    <3> QED BY <1>1, <2>1, <3>1 DEF Does
  <2>2. ASSUME h[2] = x => h[1] \in K, Does(r, x, K) PROVE Does(s, x, K)
    <3>1. ASSUME NEW i \in 1..Len(s), s[i][2] = x PROVE s[i][1] \in K
      <4>1. CASE i = 1
        BY <1>1, <2>2, <3>1, <4>1
      <4>2. CASE i # 1
        <5>1. i - 1 \in 1..Len(r) /\ r[i - 1] = s[i]
          BY <1>1, <4>2
        <5> QED BY <2>2, <3>1, <5>1 DEF Does
      <4> QED BY <4>1, <4>2
    <3> QED BY <3>1 DEF Does
  <2> QED BY <2>1, <2>2
<1> QED BY <1>2, <1>3

\* The order stays when a step is done; then nothing more asks for x.
LEMMA TailInOrder ==
  ASSUME NEW s \in Seq(Steps), s # << >>, NEW r, r = Tail(s), NEW h, h = Head(s), NEW x, InOrder(s, x)
  PROVE  /\ InOrder(r, x)
         /\ Visits(r, x) => \A op \in Asking : ~Comes(r, op, x)
         /\ h[2] = x /\ h[1] \in Turning => \A op \in Asking \cup Turning : ~Comes(r, op, x)
<1>1. /\ r \in Seq(Steps) /\ Len(s) \in Nat /\ Len(r) = Len(s) - 1 /\ 1 \in 1..Len(s) /\ s[1] = h
      /\ \A i \in 1..Len(r) : i + 1 \in 1..Len(s) /\ s[i + 1] = r[i]
      /\ \A i \in 1..Len(s) : i = 1 \/ (i - 1 \in 1..Len(r) /\ r[i - 1] = s[i])
  BY TailPlaces
<1>2. \A op, y : Comes(s, op, y) <=> h = <<op, y>> \/ Comes(r, op, y)
  BY TailComes
<1>3. TurnsLast(r, x)
  <2>1. SUFFICES ASSUME NEW i \in 1..Len(r), NEW j \in 1..Len(r),
                        i < j, r[i][2] = x, r[i][1] \in Turning, r[j][2] = x
                 PROVE  r[j][1] \notin Asking \cup Turning
    BY DEF TurnsLast
  <2>2. i + 1 \in 1..Len(s) /\ s[i + 1] = r[i] /\ j + 1 \in 1..Len(s) /\ s[j + 1] = r[j] /\ i + 1 < j + 1
    BY <1>1, <2>1
  <2> QED BY <2>1, <2>2 DEF InOrder, TurnsLast
<1>4. WritesFirst(r, x)
  <2>1. SUFFICES ASSUME NEW i \in 1..Len(r), NEW j \in 1..Len(r),
                        j < i, r[i] = <<"terminate", x>>, r[j][2] \in {x, Namespace}
                 PROVE  r[j][1] \in {"write", "request_edit"}
    BY DEF WritesFirst
  <2>2. i + 1 \in 1..Len(s) /\ s[i + 1] = r[i] /\ j + 1 \in 1..Len(s) /\ s[j + 1] = r[j] /\ j + 1 < i + 1
    BY <1>1, <2>1
  <2> QED BY <2>1, <2>2 DEF InOrder, WritesFirst
<1>5. ~(Comes(r, "write", x) /\ Comes(r, "release", x))
  BY <1>2 DEF InOrder
<1>6. ASSUME h[2] = x, h[1] \in Turning, NEW op \in Asking \cup Turning PROVE ~Comes(r, op, x)
  <2>1. ASSUME NEW i \in 1..Len(r), r[i] = <<op, x>> PROVE FALSE
    <3>1. i + 1 \in 1..Len(s) /\ s[i + 1] = <<op, x>> /\ 1 < i + 1
      BY <1>1, <2>1
    <3> QED BY <1>1, <1>6, <3>1 DEF InOrder, TurnsLast
  <2> QED BY <2>1 DEF Comes
<1>7. ASSUME Visits(r, x), NEW op \in Asking PROVE ~Comes(r, op, x)
  <2>1. CASE Visits(s, x)
    <3>1. ASSUME NEW i \in 1..Len(r), r[i] = <<op, x>> PROVE FALSE
      <4>1. i + 1 \in 1..Len(s) /\ s[i + 1] = <<op, x>> /\ i + 1 # 1
        BY <1>1, <3>1
      <4> QED BY <2>1, <4>1 DEF InOrder, AsksFirst
    <3> QED BY <3>1 DEF Comes
  <2>2. CASE ~Visits(s, x)
    <3>1. h[2] = x /\ h[1] \in Turning
      BY <1>2, <1>7, <2>2 DEF Visits
    <3> QED BY <1>6, <3>1
  <2> QED BY <2>1, <2>2
<1>8. AsksFirst(r, x)
  <2>1. SUFFICES ASSUME Visits(r, x), NEW i \in 1..Len(r), r[i][2] = x, r[i][1] \in Asking PROVE FALSE
    BY DEF AsksFirst
  <2>2. r[i] \in Steps
    BY <1>1
  <2>3. r[i] = <<r[i][1], x>>
    BY <2>1, <2>2 DEF Steps
  <2>4. Comes(r, r[i][1], x)
    BY <2>3 DEF Comes
  <2> QED BY <1>7, <2>1, <2>4
<1> QED BY <1>3, <1>4, <1>5, <1>6, <1>7, <1>8 DEF InOrder

\* What a step op at y makes of whether x is there (here), of the access to x and to the
\* namespace (m, n), and of the depths at x (d, w).
Changes(op, y, x, here, m, n, d, w, here2, m2, n2, d2, w2) ==
  /\ here2 = IF y = x /\ op \in Turning THEN op = "insert" ELSE here
  /\ y = Namespace \/ n2 = n
  /\ y = Namespace => (op = "write" => n2 = "write") /\ (op = "request_edit" => n2 = n)
  /\ y # x \/ op \in {"request_edit", "release_edit", "insert"} => m2 = m /\ d2 = d /\ w2 = w
  /\ y = x => /\ op = "read" => m2 = (IF m = "none" THEN "read" ELSE m) /\ w2 = w
              /\ op = "write" => m2 = "write"
              /\ op = "release" => m2 \in {"none", m} /\ w2 = w
              /\ op = "regain" => m2 = "read"
              /\ op = "terminate" => m2 = "none"

\* A step that is done, at x or at any other poset, leaves x safe.
LEMMA StepSafe ==
  ASSUME NEW s \in Seq(Steps), s # << >>, NEW r, r = Tail(s),
         NEW op \in Ops, NEW y, Head(s) = <<op, y>>, NEW x, x # Namespace,
         NEW here \in BOOLEAN, NEW m, NEW n, NEW d, NEW w, Safe(s, x, here, m, n, d, w),
         NEW here2 \in BOOLEAN, NEW m2, NEW n2, NEW d2, NEW w2,
         Changes(op, y, x, here, m, n, d, w, here2, m2, n2, d2, w2)
  PROVE  Safe(r, x, here2, m2, n2, d2, w2)
<1> USE DEF Changes
<1> DEFINE h == <<op, y>>
<1>1. /\ r \in Seq(Steps) /\ Len(s) \in Nat /\ Len(r) = Len(s) - 1 /\ 1 \in 1..Len(s) /\ s[1] = h
      /\ \A i \in 1..Len(r) : i + 1 \in 1..Len(s) /\ s[i + 1] = r[i]
      /\ \A i \in 1..Len(s) : i = 1 \/ (i - 1 \in 1..Len(r) /\ r[i - 1] = s[i])
  BY TailPlaces
<1>2. /\ \A o, z : Comes(s, o, z) <=> h = <<o, z>> \/ Comes(r, o, z)
      /\ \A z, K : Does(s, z, K) <=> (h[2] = z => h[1] \in K) /\ Does(r, z, K)
  BY TailComes
<1>3. h[1] = op /\ h[2] = y /\ \A o, z : h = <<o, z>> <=> op = o /\ y = z
  OBVIOUS
<1>4. InOrder(s, x)
  BY DEF Safe
<1>5. /\ InOrder(r, x)
      /\ Visits(r, x) => \A o \in Asking : ~Comes(r, o, x)
      /\ h[2] = x /\ h[1] \in Turning => \A o \in Asking \cup Turning : ~Comes(r, o, x)
  BY <1>4, TailInOrder
<1> HIDE DEF h
<1>6. WaitsWithNamespace(r, x, m2, n2)
  BY <1>5 DEF WaitsWithNamespace
<1>7. IF here2 THEN ~Comes(r, "insert", x) ELSE GoneSafe(r, x, m2)
  <2>1. CASE y = x /\ op = "insert"
    BY <1>3, <1>5, <2>1 DEF Turning
  <2>2. CASE y = x /\ op = "terminate"
    BY <1>3, <1>5, <2>2 DEF Turning, Asking, GoneSafe
  <2>3. CASE here2 = here /\ here
    <3>1. ~Comes(s, "insert", x)
      BY <2>3 DEF Safe
    <3>2. ~Comes(r, "insert", x)
      BY ONLY <1>2, <3>1
    <3> QED BY ONLY <2>3, <3>2, Zenon
  <2>4. CASE here2 = here /\ ~here /\ ~(y = x /\ op = "insert") /\ ~(y = x /\ op = "terminate")
    <3>1. GoneSafe(s, x, m)
      BY <2>4 DEF Safe
    <3>2. CASE y # x \/ op \in {"request_edit", "release_edit", "insert"}
      BY <1>2, <1>3, <2>4, <3>1, <3>2 DEF GoneSafe
    <3>3. CASE y = x /\ op = "read"
      BY <1>2, <1>3, <2>4, <3>1, <3>3 DEF GoneSafe
    <3>4. CASE y = x /\ op = "release"
      BY <1>2, <1>3, <2>4, <3>1, <3>4 DEF GoneSafe
    <3>5. CASE y = x /\ op \in {"write", "regain"}
      BY <1>2, <1>3, <2>4, <3>1, <3>5 DEF GoneSafe
    <3> QED BY <2>4, <3>2, <3>3, <3>4, <3>5 DEF Ops
  <2> QED BY <2>1, <2>2, <2>3, <2>4 DEF Turning
<1>8. UnmadeByWriter(r, x, m2, n2)
  <2>1. SUFFICES ASSUME NEW i \in 1..Len(r), r[i] = <<"terminate", x>>
                 PROVE  /\ n2 = "write" \/ \E j \in 1..Len(r) : j < i /\ r[j] = <<"write", Namespace>>
                        /\ m2 = "write" \/ \E j \in 1..Len(r) : j < i /\ r[j] = <<"write", x>>
    BY DEF UnmadeByWriter
  <2>2. i + 1 \in 1..Len(s) /\ s[i + 1] = <<"terminate", x>> /\ 1 < i + 1 /\ i \in Nat
    BY <1>1, <2>1
  <2>3. y \in {x, Namespace} => op \in {"write", "request_edit"}
    BY <1>1, <1>3, <1>4, <2>2 DEF InOrder, WritesFirst
  <2>4. UnmadeByWriter(s, x, m, n)
    BY DEF Safe
  <2>5. n2 = "write" \/ \E j \in 1..Len(r) : j < i /\ r[j] = <<"write", Namespace>>
    <3>1. CASE y = Namespace /\ op = "write"
      BY <3>1
    <3>2. CASE ~(y = Namespace /\ op = "write")
      <4>1. n2 = n
        BY <2>3, <3>2
      <4>2. n = "write" \/ \E j \in 1..Len(s) : j < i + 1 /\ s[j] = <<"write", Namespace>>
        BY <2>2, <2>4 DEF UnmadeByWriter
      <4>3. ASSUME NEW j \in 1..Len(s), j < i + 1, s[j] = <<"write", Namespace>>
            PROVE  \E k \in 1..Len(r) : k < i /\ r[k] = <<"write", Namespace>>
        <5>1. j # 1
          BY <1>1, <1>3, <3>2, <4>3
        <5>2. j - 1 \in 1..Len(r) /\ r[j - 1] = s[j] /\ j - 1 < i
          BY <1>1, <2>2, <4>3, <5>1
        <5> QED BY <4>3, <5>2
      <4> QED BY <4>1, <4>2, <4>3
    <3> QED BY <3>1, <3>2
  <2>6. m2 = "write" \/ \E j \in 1..Len(r) : j < i /\ r[j] = <<"write", x>>
    <3>1. CASE y = x /\ op = "write"
      BY <3>1
    <3>2. CASE ~(y = x /\ op = "write")
      <4>1. m2 = m
        BY <2>3, <3>2
      <4>2. m = "write" \/ \E j \in 1..Len(s) : j < i + 1 /\ s[j] = <<"write", x>>
        BY <2>2, <2>4 DEF UnmadeByWriter
      <4>3. ASSUME NEW j \in 1..Len(s), j < i + 1, s[j] = <<"write", x>>
            PROVE  \E k \in 1..Len(r) : k < i /\ r[k] = <<"write", x>>
        <5>1. j # 1
          BY <1>1, <1>3, <3>2, <4>3
        <5>2. j - 1 \in 1..Len(r) /\ r[j - 1] = s[j] /\ j - 1 < i
          BY <1>1, <2>2, <4>3, <5>1
        <5> QED BY <4>3, <5>2
      <4> QED BY <4>1, <4>2, <4>3
    <3> QED BY <3>1, <3>2
  <2> QED BY <2>5, <2>6
<1>9. ReleasesWithNamespace(r, x, m2, n2, d2, w2)
  <2>1. SUFFICES ASSUME m2 = "write", Comes(r, "release", x)
                 PROVE  /\ Does(r, Namespace, {}) /\ ~Comes(r, "read", x)
                        /\ \/ w2 = 0 \/ n2 # "none"
                           \/ d2 # w2 + 1 /\ \A i \in 1..Len(r) : r[i] = <<"release", x>> => i = Len(r)
    BY DEF ReleasesWithNamespace
  <2>2. ReleasesWithNamespace(s, x, m, n, d, w)
    BY DEF Safe
  <2>3. ~Comes(s, "write", x) /\ Comes(s, "release", x)
    BY <1>2, <1>4, <2>1 DEF InOrder
  <2>4. ~(y = x /\ op \in {"write", "regain", "terminate"})
    BY <1>2, <1>3, <2>1, <2>3
  <2>5. m = "write"
    BY <2>1, <2>4 DEF Ops
  <2>6. /\ Does(s, Namespace, {}) /\ ~Comes(s, "read", x)
        /\ \/ w = 0 \/ n # "none"
           \/ d # w + 1 /\ \A i \in 1..Len(s) : s[i] = <<"release", x>> => i = Len(s)
    BY <2>2, <2>3, <2>5 DEF ReleasesWithNamespace
  <2>7. y # Namespace /\ n2 = n /\ ~(y = x /\ op = "read")
    BY <1>2, <1>3, <2>6
  <2>8. w2 = w
    BY <2>4, <2>7 DEF Ops
  <2>9. CASE w = 0 \/ n # "none"
    BY <1>2, <2>6, <2>7, <2>8, <2>9
  <2>10. CASE d # w + 1 /\ \A i \in 1..Len(s) : s[i] = <<"release", x>> => i = Len(s)
    <3>1. PICK j \in 1..Len(r) : r[j] = <<"release", x>>
      BY <2>1 DEF Comes
    <3>2. ~(y = x /\ op = "release")
      <4>1. ASSUME s[1] = <<"release", x>> PROVE FALSE
        <5>1. 1 = Len(s)
          BY ONLY <1>1, <2>10, <4>1
        <5> QED BY <1>1, <3>1, <5>1
      <4> QED BY <1>1, <1>3, <4>1
    <3>3. d2 = d
      BY <2>4, <2>7, <3>2 DEF Ops
    <3>4. ASSUME NEW i \in 1..Len(r), r[i] = <<"release", x>> PROVE i = Len(r)
      <4>1. i + 1 \in 1..Len(s) /\ s[i + 1] = <<"release", x>>
        BY <1>1, <3>4
      <4>2. i + 1 = Len(s)
        BY ONLY <2>10, <4>1
      <4>3. i \in Nat /\ Len(r) = Len(s) - 1 /\ Len(s) \in Nat
        BY <1>1
      <4> QED BY ONLY <4>2, <4>3
    <3> QED BY <1>2, <2>6, <2>8, <2>10, <3>3, <3>4
  <2> QED BY <2>6, <2>9, <2>10
<1> QED BY <1>5, <1>6, <1>7, <1>8, <1>9 DEF Safe

\* An upgrade that gives read access up, of x, the namespace or another poset, leaves x
\* safe: what it gives up it waits for at once.
LEMMA GiveUpSafe ==
  ASSUME NEW s \in Seq(Steps), s # << >>, NEW y, Head(s) = <<"write", y>>, NEW x, x # Namespace,
         NEW here \in BOOLEAN, NEW m, NEW n, NEW d, NEW w, Safe(s, x, here, m, n, d, w),
         NEW m2, NEW n2, NEW d2, NEW w2,
         y # x => m2 = m /\ d2 = d /\ w2 = w, y = x => m = "read" /\ m2 = "none",
         y # Namespace => n2 = n, y = Namespace => n = "read" /\ n2 = "none"
  PROVE  Safe(s, x, here, m2, n2, d2, w2)
<1>1. 1 \in 1..Len(s) /\ s[1] = <<"write", y>> /\ Len(s) \in Nat
  BY TailPlaces
<1>2. Comes(s, "write", y)
  BY <1>1 DEF Comes
<1>3. InOrder(s, x) /\ UnmadeByWriter(s, x, m, n) /\ WaitsWithNamespace(s, x, m, n)
      /\ ReleasesWithNamespace(s, x, m, n, d, w)
  BY DEF Safe
<1>4. IF here THEN ~Comes(s, "insert", x) ELSE GoneSafe(s, x, m2)
  <2>1. CASE here
    <3>1. ~Comes(s, "insert", x)
      BY <2>1 DEF Safe
    <3> QED BY ONLY <2>1, <3>1, Zenon
  <2>2. CASE ~here
    <3>1. GoneSafe(s, x, m)
      BY <2>2 DEF Safe
    <3>2. GoneSafe(s, x, m2)
      BY <1>2, <3>1 DEF GoneSafe
    <3> QED BY ONLY <2>2, <3>2, Zenon
  <2> QED BY ONLY <2>1, <2>2
<1>5. UnmadeByWriter(s, x, m2, n2)
  BY <1>3 DEF UnmadeByWriter
<1>6. WaitsWithNamespace(s, x, m2, n2)
  <2>1. SUFFICES ASSUME Visits(s, x), NEW op \in Asking, Comes(s, op, x)
                 PROVE  n2 # "none" \/ m2 = "write" \/ (m2 # "none" /\ ~Comes(s, "write", x))
    BY DEF WaitsWithNamespace
  <2>2. n # "none" \/ m = "write" \/ (m # "none" /\ ~Comes(s, "write", x))
    BY <1>3, <2>1 DEF WaitsWithNamespace
  <2>3. PICK i \in 1..Len(s) : s[i] = <<op, x>>
    BY <2>1 DEF Comes
  <2>4. i = 1
    BY <1>3, <2>1, <2>3 DEF InOrder, AsksFirst
  <2>5. y = x
    BY <1>1, <2>3, <2>4
  <2> QED BY <1>2, <2>2, <2>5
<1>7. ReleasesWithNamespace(s, x, m2, n2, d2, w2)
  <2>1. SUFFICES ASSUME m2 = "write", Comes(s, "release", x)
                 PROVE  /\ Does(s, Namespace, {}) /\ ~Comes(s, "read", x)
                        /\ \/ w2 = 0 \/ n2 # "none"
                           \/ d2 # w2 + 1 /\ \A i \in 1..Len(s) : s[i] = <<"release", x>> => i = Len(s)
    BY DEF ReleasesWithNamespace
  <2>2. m = "write" /\ m2 = m /\ d2 = d /\ w2 = w
    BY <2>1
  <2>3. /\ Does(s, Namespace, {}) /\ ~Comes(s, "read", x)
        /\ \/ w = 0 \/ n # "none"
           \/ d # w + 1 /\ \A i \in 1..Len(s) : s[i] = <<"release", x>> => i = Len(s)
    BY <1>3, <2>1, <2>2 DEF ReleasesWithNamespace
  <2>4. y # Namespace
    <3>1. s[1][2] # Namespace
      BY <1>1, <2>3 DEF Does
    <3> QED BY <1>1, <3>1
  <2> QED BY <2>2, <2>3, <2>4
<1> QED BY <1>3, <1>4, <1>5, <1>6, <1>7 DEF Safe

\* The next release gives up the write access of an upgrade.
EndsUpgrade(d, w) == d = w + 1 /\ w # 0
\* What is left of the call after that release.
Regaining(s, y) == <<<<"regain", y>>>> \o Tail(s)

\* The release that ends an upgrade, of x, the namespace or another poset, leaves x safe:
\* who has to wait to read x again has the namespace.
LEMMA DowngradeSafe ==
  ASSUME NEW s \in Seq(Steps), s # << >>, NEW y \in Posets, Head(s) = <<"release", y>>,
         NEW r, r = Regaining(s, y), NEW x, x # Namespace,
         NEW here \in BOOLEAN, NEW m, NEW n, NEW d, NEW w, Safe(s, x, here, m, n, d, w),
         NEW m2, NEW n2, NEW d2, NEW w2,
         y # x => m2 = m /\ d2 = d /\ w2 = w,
         y = x => m = "write" /\ m2 = "none" /\ EndsUpgrade(d, w),
         y # Namespace => n2 = n
  PROVE  Safe(r, x, here, m2, n2, d2, w2)
<1>1. /\ Tail(s) \in Seq(Steps) /\ 1 \in 1..Len(s) /\ s[1] = <<"release", y>> /\ Len(s) \in Nat
      /\ Len(Tail(s)) = Len(s) - 1 /\ \A i \in 1..Len(s) : i = 1 \/ (i - 1 \in 1..Len(Tail(s)) /\ Tail(s)[i - 1] = s[i])
  BY TailPlaces
<1>2. <<<<"regain", y>>>> \in Seq(Steps) /\ Len(<<<<"regain", y>>>>) = 1 /\ <<<<"regain", y>>>>[1] = <<"regain", y>>
  BY DEF Steps, Ops
<1>3. r \in Seq(Steps) /\ Len(r) = Len(s) /\ r[1] = <<"regain", y>>
      /\ (\A i \in 1..Len(s) : i # 1 => r[i] = s[i])
  <2>1. r \in Seq(Steps) /\ Len(r) = 1 + Len(Tail(s)) /\ r[1] = <<"regain", y>>
        /\ (\A i \in 2..Len(r) : r[i] = Tail(s)[i - 1])
    <3>1. r = <<<<"regain", y>>>> \o Tail(s)
      BY DEF Regaining
    <3> QED BY <1>1, <1>2, <3>1, ConcatProperties
  <2>2. ASSUME NEW i \in 1..Len(s), i # 1 PROVE r[i] = s[i]
    <3>1. i \in 2..Len(r) /\ Tail(s)[i - 1] = s[i]
      BY <1>1, <2>1, <2>2
    <3> QED BY <2>1, <3>1
  <2> QED BY <1>1, <2>1, <2>2
<1>4. \A i \in 1..Len(s) : r[i][2] = s[i][2]
  BY <1>1, <1>3
<1>5. \A op, z : op \notin {"regain", "release"} => (Comes(r, op, z) <=> Comes(s, op, z))
  <2>1. ASSUME NEW op, NEW z, op \notin {"regain", "release"}, NEW i \in 1..Len(s)
        PROVE  r[i] = <<op, z>> <=> s[i] = <<op, z>>
    <3>1. CASE i = 1
      BY ONLY <1>1, <1>3, <2>1, <3>1
    <3>2. CASE i # 1
      BY ONLY <1>3, <3>2
    <3> QED BY <3>1, <3>2
  <2>2. Len(r) = Len(s)
    BY <1>3
  <2> QED BY ONLY <2>1, <2>2 DEF Comes
<1>6. ASSUME Comes(r, "release", x) PROVE Comes(s, "release", x)
  <2>1. PICK i \in 1..Len(r) : r[i] = <<"release", x>>
    BY <1>6 DEF Comes
  <2>2. i # 1 /\ i \in 1..Len(s)
    BY ONLY <1>3, <2>1
  <2>3. s[i] = <<"release", x>>
    BY ONLY <1>3, <2>1, <2>2
  <2> QED BY ONLY <2>2, <2>3 DEF Comes
<1>7. ASSUME Comes(r, "regain", x) PROVE y = x \/ Comes(s, "regain", x)
  <2>1. PICK i \in 1..Len(r) : r[i] = <<"regain", x>>
    BY <1>7 DEF Comes
  <2>2. CASE i = 1
    BY ONLY <1>3, <2>1, <2>2
  <2>3. CASE i # 1
    <3>1. i \in 1..Len(s) /\ s[i] = <<"regain", x>>
      BY ONLY <1>3, <2>1, <2>3
    <3> QED BY ONLY <3>1 DEF Comes
  <2> QED BY <2>2, <2>3
<1>8. Visits(r, x) <=> Visits(s, x)
  BY <1>5 DEF Visits, Turning
<1>9. Comes(s, "release", y)
  BY <1>1 DEF Comes
<1>10. InOrder(s, x) /\ UnmadeByWriter(s, x, m, n) /\ WaitsWithNamespace(s, x, m, n)
      /\ ReleasesWithNamespace(s, x, m, n, d, w)
  BY DEF Safe
<1>11. y = x => /\ n # "none" /\ n2 = n /\ ~Comes(s, "write", x)
  BY <1>9, <1>10 DEF ReleasesWithNamespace, InOrder, EndsUpgrade
<1>12. ASSUME y \in {x, Namespace} PROVE ~Comes(s, "terminate", x)
  <2>1. ASSUME NEW i \in 1..Len(s), s[i] = <<"terminate", x>> PROVE FALSE
    <3>1. 1 < i
      BY <1>1, <2>1
    <3> QED BY <1>1, <1>10, <1>12, <2>1, <3>1 DEF InOrder, WritesFirst
  <2> QED BY <2>1 DEF Comes
<1>13. InOrder(r, x)
  <2>1. TurnsLast(r, x)
    <3>1. SUFFICES ASSUME NEW i \in 1..Len(s), NEW j \in 1..Len(s),
                          i < j, r[i][2] = x, r[i][1] \in Turning, r[j][2] = x
                   PROVE  r[j][1] \notin Asking \cup Turning
      BY <1>3 DEF TurnsLast
    <3>2. i # 1 /\ j # 1
      BY <1>3, <3>1 DEF Turning
    <3>3. r[i] = s[i] /\ r[j] = s[j]
      BY <1>3, <3>2
    <3> QED BY <1>10, <3>1, <3>3 DEF InOrder, TurnsLast
  <2>2. WritesFirst(r, x)
    <3>1. SUFFICES ASSUME NEW i \in 1..Len(s), NEW j \in 1..Len(s),
                          j < i, r[i] = <<"terminate", x>>, r[j][2] \in {x, Namespace}
                   PROVE  r[j][1] \in {"write", "request_edit"}
      BY <1>3 DEF WritesFirst
    <3>2. i # 1 /\ s[i] = <<"terminate", x>>
      BY <1>3, <3>1
    <3>3. y \notin {x, Namespace}
      BY <1>12, <3>2 DEF Comes
    <3>4. j # 1 /\ r[j] = s[j]
      BY <1>3, <3>1, <3>3
    <3> QED BY <1>10, <3>1, <3>2, <3>4 DEF InOrder, WritesFirst
  <2>3. ~(Comes(r, "write", x) /\ Comes(r, "release", x))
    BY <1>5, <1>6, <1>10 DEF InOrder
  <2>4. AsksFirst(r, x)
    <3>1. SUFFICES ASSUME Visits(s, x), NEW i \in 1..Len(s), r[i][2] = x, r[i][1] \in Asking, i # 1 PROVE FALSE
      BY <1>3, <1>8 DEF AsksFirst
    <3>2. r[i] = s[i]
      BY <1>3, <3>1
    <3> QED BY <1>10, <3>1, <3>2 DEF InOrder, AsksFirst
  <2> QED BY <2>1, <2>2, <2>3, <2>4 DEF InOrder
<1>14. IF here THEN ~Comes(r, "insert", x) ELSE GoneSafe(r, x, m2)
  <2>1. CASE here
    <3>1. ~Comes(s, "insert", x)
      BY <2>1 DEF Safe
    <3>2. ~Comes(r, "insert", x)
      BY <1>5, <3>1
    <3> QED BY ONLY <2>1, <3>2, Zenon
  <2>2. CASE ~here
    <3>1. GoneSafe(s, x, m)
      BY <2>2 DEF Safe
    <3>2. y # x /\ m2 = m
      BY <3>1 DEF GoneSafe
    <3>3. ~Comes(r, "regain", x)
      BY <1>7, <3>1, <3>2 DEF GoneSafe
    <3>4. GoneSafe(r, x, m2)
      BY <1>5, <3>1, <3>2, <3>3 DEF GoneSafe
    <3> QED BY ONLY <2>2, <3>4, Zenon
  <2> QED BY ONLY <2>1, <2>2
<1>15. UnmadeByWriter(r, x, m2, n2)
  <2>1. SUFFICES ASSUME NEW i \in 1..Len(s), r[i] = <<"terminate", x>>
                 PROVE  /\ n2 = "write" \/ \E j \in 1..Len(s) : j < i /\ r[j] = <<"write", Namespace>>
                        /\ m2 = "write" \/ \E j \in 1..Len(s) : j < i /\ r[j] = <<"write", x>>
    BY <1>3 DEF UnmadeByWriter
  <2>2. i # 1 /\ s[i] = <<"terminate", x>>
    BY <1>3, <2>1
  <2>3. y \notin {x, Namespace}
    BY <1>12, <2>2 DEF Comes
  <2>4. /\ n = "write" \/ \E j \in 1..Len(s) : j < i /\ s[j] = <<"write", Namespace>>
        /\ m = "write" \/ \E j \in 1..Len(s) : j < i /\ s[j] = <<"write", x>>
    BY <1>10, <2>2 DEF UnmadeByWriter
  <2>5. ASSUME NEW j \in 1..Len(s), NEW z, s[j] = <<"write", z>> PROVE r[j] = <<"write", z>>
    BY <1>1, <1>3, <2>5
  <2> QED BY <2>3, <2>4, <2>5
<1>16. WaitsWithNamespace(r, x, m2, n2)
  <2>1. SUFFICES ASSUME Visits(r, x), NEW op \in Asking, Comes(r, op, x)
                 PROVE  n2 # "none" \/ m2 = "write" \/ (m2 # "none" /\ ~Comes(r, "write", x))
    BY DEF WaitsWithNamespace
  <2>2. PICK i \in 1..Len(r) : r[i] = <<op, x>>
    BY <2>1 DEF Comes
  <2>3. i = 1
    BY <1>13, <2>1, <2>2 DEF InOrder, AsksFirst
  <2>4. y = x
    BY <1>3, <2>2, <2>3
  <2> QED BY <1>11, <2>4
<1>17. ReleasesWithNamespace(r, x, m2, n2, d2, w2)
  <2>1. SUFFICES ASSUME m2 = "write", Comes(r, "release", x)
                 PROVE  /\ Does(r, Namespace, {}) /\ ~Comes(r, "read", x)
                        /\ \/ w2 = 0 \/ n2 # "none"
                           \/ d2 # w2 + 1 /\ \A i \in 1..Len(r) : r[i] = <<"release", x>> => i = Len(r)
    BY DEF ReleasesWithNamespace
  <2>2. y # x /\ m = "write" /\ m2 = m /\ d2 = d /\ w2 = w
    BY <2>1
  <2>3. /\ Does(s, Namespace, {}) /\ ~Comes(s, "read", x)
        /\ \/ w = 0 \/ n # "none"
           \/ d # w + 1 /\ \A i \in 1..Len(s) : s[i] = <<"release", x>> => i = Len(s)
    BY <1>6, <1>10, <2>1, <2>2 DEF ReleasesWithNamespace
  <2>4. Does(r, Namespace, {})
    <3>1. ASSUME NEW i \in 1..Len(r), r[i][2] = Namespace PROVE FALSE
      <4>1. i \in 1..Len(s) /\ s[i][2] = Namespace
        BY <1>3, <1>4, <3>1
      <4> QED BY <2>3, <4>1 DEF Does
    <3> QED BY <3>1 DEF Does
  <2>5. n2 = n
    <3>1. y # Namespace
      <4>1. ASSUME y = Namespace PROVE FALSE
        <5>1. 1 \in 1..Len(s) /\ s[1][2] = Namespace
          BY ONLY <1>1, <4>1
        <5>2. Does(s, Namespace, {})
          BY <2>3
        <5> QED BY ONLY <5>1, <5>2 DEF Does
      <4> QED BY <4>1
    <3> QED BY <3>1
  <2>6. Len(r) = Len(s) /\ \A i \in 1..Len(r) : r[i] = <<"release", x>> => s[i] = <<"release", x>>
    <3>1. ASSUME NEW i \in 1..Len(s), r[i] = <<"release", x>> PROVE s[i] = <<"release", x>>
      BY ONLY <1>3, <3>1
    <3> QED BY <1>3, <3>1
  <2>7. ~Comes(r, "read", x)
    BY <1>5, <2>3
  <2>8. ASSUME \A i \in 1..Len(s) : s[i] = <<"release", x>> => i = Len(s),
               NEW i \in 1..Len(r), r[i] = <<"release", x>>
        PROVE  i = Len(r)
    BY ONLY <2>6, <2>8
  <2> QED BY ONLY <2>2, <2>3, <2>4, <2>5, <2>7, <2>8
<1> QED BY <1>13, <1>14, <1>15, <1>16, <1>17 DEF Safe

\* Another thread made x: who had nothing of it and makes it not is safe.
LEMMA MadeSafe ==
  ASSUME NEW s, NEW x, NEW m, NEW n, NEW d, NEW w, Safe(s, x, FALSE, m, n, d, w), ~Comes(s, "insert", x)
  PROVE  Safe(s, x, TRUE, m, n, d, w)
BY DEF Safe

\* Another thread unmade x: who has neither x nor the namespace does not wait for x.
LEMMA UnmadeSafe ==
  ASSUME NEW s \in Seq(Steps), NEW x, NEW d, NEW w, Safe(s, x, TRUE, "none", "none", d, w), ~Comes(s, "terminate", x)
  PROVE  Safe(s, x, FALSE, "none", "none", d, w)
<1>1. Visits(s, x)
  BY DEF Safe, Visits, Turning
<1>2. \A op \in Asking : ~Comes(s, op, x)
  BY <1>1 DEF Safe, WaitsWithNamespace
<1>3. GoneSafe(s, x, "none")
  BY <1>2 DEF GoneSafe, Asking
<1> QED BY <1>3 DEF Safe

(***************************************************************************)
(* What the calls do at a poset.                                           *)
(***************************************************************************)
\* A sequence of one step.
LEMMA DoesOne ==
  ASSUME NEW op \in Ops, NEW y \in Posets, NEW x, NEW K, y = x => op \in K
  PROVE  <<<<op, y>>>> \in Seq(Steps) /\ Does(<<<<op, y>>>>, x, K)
BY OneStep DEF Does

\* The places of a concatenation.
LEMMA ConcatPlaces ==
  ASSUME NEW s \in Seq(Steps), NEW t \in Seq(Steps)
  PROVE  /\ s \o t \in Seq(Steps) /\ Len(s) \in Nat /\ Len(t) \in Nat /\ Len(s \o t) = Len(s) + Len(t)
         /\ \A i \in 1..Len(s \o t) : (s \o t)[i] = IF i <= Len(s) THEN s[i] ELSE t[i - Len(s)]
BY ConcatProperties

\* One sequence after another.
LEMMA DoesConcat ==
  ASSUME NEW s \in Seq(Steps), NEW t \in Seq(Steps), NEW x, NEW K, Does(s, x, K), Does(t, x, K)
  PROVE  s \o t \in Seq(Steps) /\ Does(s \o t, x, K)
<1>1. /\ s \o t \in Seq(Steps) /\ Len(s) \in Nat /\ Len(t) \in Nat /\ Len(s \o t) = Len(s) + Len(t)
      /\ \A i \in 1..Len(s \o t) : (s \o t)[i] = IF i <= Len(s) THEN s[i] ELSE t[i - Len(s)]
  BY ConcatPlaces
<1>2. PICK u : u = s \o t
  OBVIOUS
<1>3. ASSUME NEW i \in 1..Len(u), u[i][2] = x PROVE u[i][1] \in K
  <2>1. CASE i <= Len(s)
    BY <1>1, <1>2, <1>3, <2>1 DEF Does
  <2>2. CASE ~(i <= Len(s))
    <3>1. i - Len(s) \in 1..Len(t) /\ u[i] = t[i - Len(s)]
      BY <1>1, <1>2, <2>2
    <3> QED BY <1>3, <3>1 DEF Does
  <2> QED BY <2>1, <2>2
<1> QED BY <1>1, <1>2, <1>3 DEF Does

\* What does less does also more.
LEMMA DoesMore ==
  ASSUME NEW s, NEW x, NEW K, NEW L, Does(s, x, K), K \subseteq L
  PROVE  Does(s, x, L)
BY DEF Does

\* A sequence over and over.
LEMMA DoesTimes ==
  ASSUME NEW s \in Seq(Steps), NEW x, NEW K, Does(s, x, K), NEW n \in Nat
  PROVE  Times(n, s) \in Seq(Steps) /\ Does(Times(n, s), x, K)
<1>0. PICK p : Repeats(p, Steps, s)
  BY FlattenSame
<1>1. /\ p \in [Nat -> Seq(Steps)] /\ p[0] = << >> /\ \A k \in Nat : p[k + 1] = p[k] \o s
      /\ \A k \in Nat : Times(k, s) = p[k]
  BY <1>0 DEF Repeats, Times
<1> DEFINE G == {k \in Nat : Does(p[k], x, K)}
<1>2. 0 \in G
  BY <1>1 DEF Does
<1>3. ASSUME NEW k \in Nat, k \in G PROVE k + 1 \in G
  <2>1. p[k] \in Seq(Steps) /\ Does(p[k], x, K)
    BY <1>1, <1>3
  <2>2. Does(p[k] \o s, x, K)
    BY <2>1, DoesConcat
  <2>3. p[k + 1] = p[k] \o s
    BY <1>1
  <2>4. Does(p[k + 1], x, K)
    BY <2>2, <2>3
  <2> QED BY <2>4
<1>4. n \in G
  <2> HIDE DEF G
  <2> QED BY <1>2, <1>3, EveryNat
<1> QED BY <1>1, <1>4

\* What is not in the chain of y is not y, and not in the chain of what y needs.
LEMMA ChainParts ==
  ASSUME NEW y \in Posets, NEW x \in Posets, x \notin Chain(y)
  PROVE  x # y /\ x \notin Chain(SchemaOf[y]) /\ (y = Namespace => x \notin Chain(Primitives))
<1>1. y \in Chain(y) /\ \A z \in Needs(y) : Chain(z) \subseteq Chain(y)
  BY ChainIs
<1>2. SchemaOf[y] \in Needs(y) /\ Primitives \in Needs(Namespace)
  BY ConstantsAre
<1> QED BY <1>1, <1>2

\* A request for read access to y only reads, and only what is in the chain of y.
LEMMA GetDoes ==
  ASSUME NEW x \in Posets
  PROVE  \A y \in Nodes : /\ get_read_access[y] \in Seq(Steps) /\ Does(get_read_access[y], x, {"read"})
                          /\ x \notin Chain(y) => Does(get_read_access[y], x, {})
<1> DEFINE G == {y \in Nodes : /\ Does(get_read_access[y], x, {"read"})
                               /\ x \notin Chain(y) => Does(get_read_access[y], x, {})}
<1>1. ASSUME NEW y \in Nodes, Needed[y] \cap Nodes \subseteq G PROVE y \in G
  <2>1. CASE y = NoPoset
    BY <2>1, get_read_accessIs DEF Does
  <2>2. CASE y # NoPoset
    <3>1. y \in Posets /\ Needed[y] = Needs(y)
      BY <2>2 DEF Nodes, Needed
    <3>2. SchemaOf[y] \in G /\ (y = Namespace => Primitives \in G) /\ SchemaOf[y] \in Nodes /\ Primitives \in Nodes
      BY <1>1, <3>1, ConstantsAre
    <3>3. PICK s : s = <<<<"read", y>>>>
      OBVIOUS
    <3>4. PICK u : u = IF y = Namespace THEN get_read_access[Primitives] ELSE << >>
      OBVIOUS
    <3>5. PICK v : v = get_read_access[SchemaOf[y]]
      OBVIOUS
    <3>6. v \in Seq(Steps) /\ u \in Seq(Steps)
      BY <3>2, <3>4, <3>5, get_read_accessIs
    <3>7. get_read_access[y] = (s \o v) \o u
      BY <3>1, <3>3, <3>4, <3>5, get_read_accessIs
    <3>8. ASSUME NEW K, y = x => "read" \in K, Does(v, x, K), Does(u, x, K) PROVE Does(get_read_access[y], x, K)
      <4>1. s \in Seq(Steps) /\ Does(s, x, K)
        BY <3>1, <3>3, <3>8, DoesOne DEF Ops
      <4>2. s \o v \in Seq(Steps) /\ Does(s \o v, x, K)
        BY <3>6, <3>8, <4>1, DoesConcat
      <4>3. Does((s \o v) \o u, x, K)
        BY <3>6, <3>8, <4>2, DoesConcat
      <4> QED BY <3>7, <4>3
    <3>9. \A K : Does(<< >>, x, K)
      BY DEF Does
    <3>10. Does(get_read_access[y], x, {"read"})
      <4>1. Does(v, x, {"read"}) /\ Does(u, x, {"read"})
        BY <3>2, <3>4, <3>5, <3>9
      <4> QED BY <3>8, <4>1
    <3>11. ASSUME x \notin Chain(y) PROVE Does(get_read_access[y], x, {})
      <4>1. x # y /\ x \notin Chain(SchemaOf[y]) /\ (y = Namespace => x \notin Chain(Primitives))
        BY <3>1, <3>11, ChainParts
      <4>2. Does(v, x, {}) /\ Does(u, x, {})
        BY <3>2, <3>4, <3>5, <3>9, <4>1
      <4> QED BY <3>8, <4>1, <4>2
    <3> QED BY <3>10, <3>11
  <2> QED BY <2>1, <2>2
<1>2. Nodes \subseteq G
  <2> HIDE DEF G
  <2> QED BY <1>1, ConstantsAre, GroundedInduction
<1> QED BY <1>2, get_read_accessIs

\* A release of y only releases, and only what is in the chain of y.
LEMMA ReleaseDoes ==
  ASSUME NEW x \in Posets
  PROVE  \A y \in Nodes : /\ release_access_once[y] \in Seq(Steps) /\ Does(release_access_once[y], x, {"release"})
                          /\ x \notin Chain(y) => Does(release_access_once[y], x, {})
<1> DEFINE G == {y \in Nodes : /\ Does(release_access_once[y], x, {"release"})
                               /\ x \notin Chain(y) => Does(release_access_once[y], x, {})}
<1>1. ASSUME NEW y \in Nodes, Needed[y] \cap Nodes \subseteq G PROVE y \in G
  <2>1. CASE y = NoPoset
    BY <2>1, release_access_onceIs DEF Does
  <2>2. CASE y # NoPoset
    <3>1. y \in Posets /\ Needed[y] = Needs(y)
      BY <2>2 DEF Nodes, Needed
    <3>2. SchemaOf[y] \in G /\ (y = Namespace => Primitives \in G) /\ SchemaOf[y] \in Nodes /\ Primitives \in Nodes
      BY <1>1, <3>1, ConstantsAre
    <3>3. PICK s : s = <<<<"release", y>>>>
      OBVIOUS
    <3>4. PICK u : u = IF y = Namespace THEN release_access_once[Primitives] ELSE << >>
      OBVIOUS
    <3>5. PICK v : v = release_access_once[SchemaOf[y]]
      OBVIOUS
    <3>6. v \in Seq(Steps) /\ u \in Seq(Steps)
      BY <3>2, <3>4, <3>5, release_access_onceIs
    <3>7. release_access_once[y] = (u \o v) \o s
      BY <3>1, <3>3, <3>4, <3>5, release_access_onceIs
    <3>8. ASSUME NEW K, y = x => "release" \in K, Does(v, x, K), Does(u, x, K) PROVE Does(release_access_once[y], x, K)
      <4>1. s \in Seq(Steps) /\ Does(s, x, K)
        BY <3>1, <3>3, <3>8, DoesOne DEF Ops
      <4>2. u \o v \in Seq(Steps) /\ Does(u \o v, x, K)
        BY <3>6, <3>8, DoesConcat
      <4>3. Does((u \o v) \o s, x, K)
        BY <4>1, <4>2, DoesConcat
      <4> QED BY <3>7, <4>3
    <3>9. \A K : Does(<< >>, x, K)
      BY DEF Does
    <3>10. Does(release_access_once[y], x, {"release"})
      <4>1. Does(v, x, {"release"}) /\ Does(u, x, {"release"})
        BY <3>2, <3>4, <3>5, <3>9
      <4> QED BY <3>8, <4>1
    <3>11. ASSUME x \notin Chain(y) PROVE Does(release_access_once[y], x, {})
      <4>1. x # y /\ x \notin Chain(SchemaOf[y]) /\ (y = Namespace => x \notin Chain(Primitives))
        BY <3>1, <3>11, ChainParts
      <4>2. Does(v, x, {}) /\ Does(u, x, {})
        BY <3>2, <3>4, <3>5, <3>9, <4>1
      <4> QED BY <3>8, <4>1, <4>2
    <3> QED BY <3>10, <3>11
  <2> QED BY <2>1, <2>2
<1>2. Nodes \subseteq G
  <2> HIDE DEF G
  <2> QED BY <1>1, ConstantsAre, GroundedInduction
<1> QED BY <1>2, release_access_onceIs

\* A request to read or to write y begins with y and does nothing more to y.
LEMMA RequestsBegin ==
  ASSUME NEW y \in Posets
  PROVE  \E u \in Seq(Steps) :
           /\ get_read_access[y] = <<<<"read", y>>>> \o u /\ get_read_write_access(y) = <<<<"write", y>>>> \o u
           /\ \A x \in Posets : x = y \/ x \notin Chain(y) => Does(u, x, {})
<1>1. PICK u : u = IF y = Namespace THEN get_read_access[Primitives] ELSE << >>
  OBVIOUS
<1>2. PICK v : v = get_read_access[SchemaOf[y]]
  OBVIOUS
<1>3. SchemaOf[y] \in Nodes /\ Primitives \in Nodes
  BY ConstantsAre
<1>4. PICK s : s = <<<<"read", y>>>>
  OBVIOUS
<1>5. s \in Seq(Steps) /\ Len(s) = 1
  BY <1>4, OneStep DEF Ops
<1>6. v \in Seq(Steps) /\ u \in Seq(Steps) /\ v \o u \in Seq(Steps)
  <2>1. << >> \in Seq(Steps)
    OBVIOUS
  <2> QED BY <1>1, <1>2, <1>3, <2>1, get_read_accessIs, ConcatProperties
<1>7. get_read_access[y] = s \o (v \o u)
  <2>1. get_read_access[y] = (s \o v) \o u
    BY <1>1, <1>2, <1>4, get_read_accessIs
  <2>2. (s \o v) \o u = s \o (v \o u)
    <3>1. s \in Seq(Steps) /\ v \in Seq(Steps) /\ u \in Seq(Steps)
      BY <1>5, <1>6
    <3> QED BY ONLY <3>1, ConcatAssociative
  <2> QED BY <2>1, <2>2
<1>8. get_read_write_access(y) = <<<<"write", y>>>> \o (v \o u)
  BY <1>5, <1>6, <1>7, TailConcat DEF get_read_write_access
<1>9. ASSUME NEW x \in Posets, x = y \/ x \notin Chain(y) PROVE Does(v \o u, x, {})
  <2>1. x \notin Chain(SchemaOf[y]) /\ (y = Namespace => x \notin Chain(Primitives))
    <3>1. CASE x = y
      <4>1. \A z \in Needs(y) : y \notin Chain(z)
        BY OnceInItsChain
      <4>2. SchemaOf[y] \in Needs(y) /\ Primitives \in Needs(Namespace)
        BY ConstantsAre
      <4> QED BY <3>1, <4>1, <4>2
    <3>2. CASE x \notin Chain(y)
      BY <3>2, ChainParts
    <3> QED BY <1>9, <3>1, <3>2
  <2>2. Does(v, x, {}) /\ Does(u, x, {})
    <3>1. Does(<< >>, x, {})
      BY DEF Does
    <3> QED BY <1>1, <1>2, <1>3, <2>1, <3>1, GetDoes
  <2> QED BY <1>6, <2>2, DoesConcat
<1> QED BY <1>4, <1>6, <1>7, <1>8, <1>9

\* A release of y ends with y and does nothing before to y.
LEMMA ReleasesEnd ==
  ASSUME NEW y \in Posets
  PROVE  \E u \in Seq(Steps) : release_access_once[y] = u \o <<<<"release", y>>>> /\ Does(u, y, {})
<1>1. PICK u : u = IF y = Namespace THEN release_access_once[Primitives] ELSE << >>
  OBVIOUS
<1>2. PICK v : v = release_access_once[SchemaOf[y]]
  OBVIOUS
<1>3. SchemaOf[y] \in Nodes /\ Primitives \in Nodes
  BY ConstantsAre
<1>4. v \in Seq(Steps) /\ u \in Seq(Steps)
  <2>1. << >> \in Seq(Steps)
    OBVIOUS
  <2> QED BY <1>1, <1>2, <1>3, <2>1, release_access_onceIs
<1>5. release_access_once[y] = (u \o v) \o <<<<"release", y>>>>
  BY <1>1, <1>2, release_access_onceIs
<1>6. Does(v, y, {}) /\ Does(u, y, {})
  <2>1. \A z \in Needs(y) : y \notin Chain(z)
    BY OnceInItsChain
  <2>2. SchemaOf[y] \in Needs(y) /\ Primitives \in Needs(Namespace)
    BY ConstantsAre
  <2>3. Does(<< >>, y, {})
    BY DEF Does
  <2> QED BY <1>1, <1>2, <1>3, <2>1, <2>2, <2>3, ReleaseDoes
<1>7. u \o v \in Seq(Steps) /\ Does(u \o v, y, {})
  BY <1>4, <1>6, DoesConcat
<1> QED BY <1>5, <1>7

(***************************************************************************)
(* The calls that leave a table safe as they begin.                        *)
(***************************************************************************)
\* What does nothing at x does no step there.
LEMMA DoesNot ==
  ASSUME NEW s, NEW x, NEW K, Does(s, x, K)
  PROVE  /\ \A op : op \notin K => ~Comes(s, op, x)
         /\ \A i \in 1..Len(s) : s[i][2] = x => s[i][1] \in K
<1>1. ASSUME NEW op, op \notin K, NEW i \in 1..Len(s), s[i] = <<op, x>> PROVE FALSE
  <2>1. s[i][2] = x /\ s[i][1] = op
    BY <1>1
  <2> QED BY <1>1, <2>1 DEF Does
<1> QED BY <1>1 DEF Comes, Does

\* A call on other posets.
LEMMA AwaySafe ==
  ASSUME NEW s, NEW x, Does(s, x, {}), NEW here \in BOOLEAN, NEW m, here \/ m = "none", NEW n, NEW d, NEW w
  PROVE  Safe(s, x, here, m, n, d, w)
<1>1. \A op : ~Comes(s, op, x)
  BY DoesNot
<1>2. \A i \in 1..Len(s) : s[i][2] # x
  BY DoesNot
<1>3. \A i \in 1..Len(s) : s[i] # <<"terminate", x>>
  BY <1>1 DEF Comes
<1>4. InOrder(s, x)
  BY <1>1, <1>2, <1>3 DEF InOrder, TurnsLast, WritesFirst, AsksFirst
<1>5. IF here THEN ~Comes(s, "insert", x) ELSE GoneSafe(s, x, m)
  <2>1. ~Comes(s, "insert", x)
    BY <1>1
  <2>2. CASE here
    BY ONLY <2>1, <2>2, Zenon
  <2>3. CASE ~here
    <3>1. GoneSafe(s, x, m)
      BY <1>1, <2>3 DEF GoneSafe
    <3> QED BY ONLY <2>3, <3>1, Zenon
  <2> QED BY <2>2, <2>3
<1>6. UnmadeByWriter(s, x, m, n) /\ WaitsWithNamespace(s, x, m, n) /\ ReleasesWithNamespace(s, x, m, n, d, w)
  BY <1>1, <1>3 DEF UnmadeByWriter, WaitsWithNamespace, ReleasesWithNamespace
<1> QED BY <1>4, <1>5, <1>6 DEF Safe

\* A request for x: it waits for x at once, with the namespace, or does not wait.
LEMMA RequestSafe ==
  ASSUME NEW s \in Seq(Steps), NEW k \in {"read", "write", "request_edit"}, NEW x,
         NEW u \in Seq(Steps), NEW f \in Seq(Steps), s = f \o u, Len(f) = 1, f[1] = <<k, x>>,
         Does(u, x, {"request_edit"}), NEW m, NEW n,
         k = "read" => m # "none" \/ n # "none", k = "write" => m = "write" \/ n # "none",
         NEW d, NEW w
  PROVE  Safe(s, x, TRUE, m, n, d, w)
<1>1. /\ Len(s) \in Nat /\ s # << >> /\ Head(s) = <<k, x>> /\ Tail(s) = u
  <2>1. /\ f \o u \in Seq(Steps) /\ Len(f \o u) = Len(f) + Len(u) /\ Len(u) \in Nat
        /\ \A i \in 1..Len(f \o u) : (f \o u)[i] = IF i <= Len(f) THEN f[i] ELSE u[i - Len(f)]
    BY ConcatPlaces
  <2>2. s \in Seq(Steps) /\ Len(s) \in Nat /\ s # << >> /\ s[1] = <<k, x>>
    BY <2>1
  <2>3. Tail(s) = u
    BY TailConcat
  <2> QED BY <2>2, <2>3
<1>2. /\ Len(u) \in Nat /\ 1 \in 1..Len(s) /\ s[1] = <<k, x>>
      /\ \A i \in 1..Len(s) : i = 1 \/ (i - 1 \in 1..Len(u) /\ u[i - 1] = s[i])
  BY <1>1, TailPlaces
<1>3. \A op, z : Comes(s, op, z) <=> <<k, x>> = <<op, z>> \/ Comes(u, op, z)
  BY <1>1, TailComes
<1>4. \A op : op # "request_edit" => ~Comes(u, op, x)
  BY DoesNot
<1>5. /\ \A op : op # "request_edit" /\ op # k => ~Comes(s, op, x)
      /\ Visits(s, x)
  BY <1>3, <1>4 DEF Visits, Turning
<1>6. ASSUME NEW i \in 1..Len(s), i # 1, s[i][2] = x PROVE s[i][1] = "request_edit"
  <2>1. i - 1 \in 1..Len(u) /\ u[i - 1][2] = x
    BY <1>2, <1>6
  <2>2. u[i - 1][1] = "request_edit"
    BY <2>1 DEF Does
  <2> QED BY <1>2, <1>6, <2>2
<1>7. \A i \in 1..Len(s) : s[i][2] = x => s[i][1] \in {k, "request_edit"}
  BY <1>2, <1>6
<1>8. \A i \in 1..Len(s) : s[i] # <<"terminate", x>>
  BY <1>5 DEF Comes
<1>9. InOrder(s, x)
  <2>1. TurnsLast(s, x)
    BY <1>7 DEF TurnsLast, Turning
  <2>2. WritesFirst(s, x)
    BY <1>8 DEF WritesFirst
  <2>3. AsksFirst(s, x)
    BY <1>6 DEF AsksFirst, Asking
  <2> QED BY <1>5, <2>1, <2>2, <2>3 DEF InOrder
<1>10. UnmadeByWriter(s, x, m, n)
  BY <1>8 DEF UnmadeByWriter
<1>11. WaitsWithNamespace(s, x, m, n)
  BY <1>5 DEF WaitsWithNamespace, Asking
<1>12. ReleasesWithNamespace(s, x, m, n, d, w)
  BY <1>5 DEF ReleasesWithNamespace
<1> QED BY <1>5, <1>9, <1>10, <1>11, <1>12 DEF Safe

\* A release of x: if it has to wait to read again it has the namespace.
LEMMA FinishSafe ==
  ASSUME NEW s, NEW x, Does(s, x, {"release", "release_edit"}), Does(s, Namespace, {}),
         NEW m, NEW n, NEW d, NEW w,
         \/ w = 0 \/ n # "none" \/ ~Comes(s, "release", x)
         \/ d # w + 1 /\ \A i \in 1..Len(s) : s[i] = <<"release", x>> => i = Len(s)
  PROVE  Safe(s, x, TRUE, m, n, d, w)
<1>1. /\ \A op : op \notin {"release", "release_edit"} => ~Comes(s, op, x)
      /\ \A i \in 1..Len(s) : s[i][2] = x => s[i][1] \in {"release", "release_edit"}
  BY DoesNot
<1>2. ~Comes(s, "insert", x) /\ ~Comes(s, "read", x) /\ ~Comes(s, "write", x) /\ ~Comes(s, "regain", x)
      /\ ~Comes(s, "terminate", x)
  BY <1>1
<1>3. \A i \in 1..Len(s) : s[i] # <<"terminate", x>>
  BY <1>2 DEF Comes
<1>4. InOrder(s, x)
  BY <1>1, <1>2, <1>3 DEF InOrder, TurnsLast, Turning, WritesFirst, AsksFirst, Asking
<1>5. UnmadeByWriter(s, x, m, n) /\ WaitsWithNamespace(s, x, m, n) /\ ReleasesWithNamespace(s, x, m, n, d, w)
  BY <1>2, <1>3 DEF UnmadeByWriter, WaitsWithNamespace, Asking, ReleasesWithNamespace
<1> QED BY <1>2, <1>4, <1>5 DEF Safe

\* The step e, with steps a before and steps b after it.
Around(s, a, e, b, k) ==
  /\ s[k] = e /\ Len(s) \in Nat
  /\ \A x, K : Does(a, x, K) => \A i \in 1..Len(s) : i < k /\ s[i][2] = x => s[i][1] \in K
  /\ \A x, K : Does(b, x, K) => \A i \in 1..Len(s) : k < i /\ s[i][2] = x => s[i][1] \in K
  /\ \A op, x : Comes(a, op, x) => \E i \in 1..Len(s) : i < k /\ s[i] = <<op, x>>

\* The places of a step with steps before and after it.
LEMMA AroundPlaces ==
  ASSUME NEW a \in Seq(Steps), NEW f \in Seq(Steps), Len(f) = 1, NEW b \in Seq(Steps), NEW s, s = (a \o f) \o b
  PROVE  s \in Seq(Steps) /\ \E k \in 1..Len(s) : Around(s, a, f[1], b, k)
<1>1. PICK c : c = a \o f
  OBVIOUS
<1>2. /\ c \in Seq(Steps) /\ Len(a) \in Nat /\ Len(c) = Len(a) + 1
      /\ \A i \in 1..Len(c) : c[i] = IF i <= Len(a) THEN a[i] ELSE f[i - Len(a)]
  <2>1. /\ a \o f \in Seq(Steps) /\ Len(a \o f) = Len(a) + Len(f) /\ Len(a) \in Nat
        /\ \A i \in 1..Len(a \o f) : (a \o f)[i] = IF i <= Len(a) THEN a[i] ELSE f[i - Len(a)]
    BY ConcatPlaces
  <2> QED BY <1>1, <2>1
<1>3. /\ s \in Seq(Steps) /\ Len(b) \in Nat /\ Len(s) = Len(c) + Len(b)
      /\ \A i \in 1..Len(s) : s[i] = IF i <= Len(c) THEN c[i] ELSE b[i - Len(c)]
  <2>1. c \in Seq(Steps)
    BY <1>2
  <2>2. /\ c \o b \in Seq(Steps) /\ Len(c \o b) = Len(c) + Len(b) /\ Len(b) \in Nat
        /\ \A i \in 1..Len(c \o b) : (c \o b)[i] = IF i <= Len(c) THEN c[i] ELSE b[i - Len(c)]
    BY <2>1, ConcatPlaces
  <2>3. s = c \o b
    BY <1>1
  <2> QED BY <2>2, <2>3
<1>4. PICK k : k = Len(a) + 1
  OBVIOUS
<1>5. k \in 1..Len(s) /\ k \in Nat /\ Len(s) \in Nat /\ Len(c) = k
  BY <1>2, <1>3, <1>4
<1>6. s[k] = f[1]
  <2>1. k - Len(a) = 1 /\ k \in 1..Len(c) /\ ~(k <= Len(a)) /\ k <= Len(c)
    BY <1>2, <1>4, <1>5
  <2> QED BY <1>2, <1>3, <1>5, <2>1
<1>7. ASSUME NEW i \in 1..Len(s), i < k PROVE i \in 1..Len(a) /\ s[i] = a[i]
  <2>1. i \in 1..Len(a) /\ i \in 1..Len(c) /\ i <= Len(c) /\ i <= Len(a)
    BY <1>2, <1>4, <1>5, <1>7
  <2> QED BY <1>2, <1>3, <1>7, <2>1
<1>8. ASSUME NEW i \in 1..Len(s), k < i PROVE i - k \in 1..Len(b) /\ s[i] = b[i - k]
  <2>1. i - k \in 1..Len(b) /\ ~(i <= Len(c))
    BY <1>3, <1>5, <1>8
  <2> QED BY <1>3, <1>5, <1>8, <2>1
<1>9. ASSUME NEW i \in 1..Len(a) PROVE i \in 1..Len(s) /\ i < k
  BY <1>2, <1>3, <1>4, <1>9
<1>10. ASSUME NEW x, NEW K, Does(a, x, K), NEW i \in 1..Len(s), i < k, s[i][2] = x PROVE s[i][1] \in K
  BY <1>7, <1>10 DEF Does
<1>11. ASSUME NEW x, NEW K, Does(b, x, K), NEW i \in 1..Len(s), k < i, s[i][2] = x PROVE s[i][1] \in K
  <2>1. i - k \in 1..Len(b) /\ s[i] = b[i - k]
    BY <1>8, <1>11
  <2> QED BY <1>11, <2>1 DEF Does
<1>12. ASSUME NEW op, NEW x, Comes(a, op, x) PROVE \E i \in 1..Len(s) : i < k /\ s[i] = <<op, x>>
  <2>1. PICK i \in 1..Len(a) : a[i] = <<op, x>>
    BY <1>12 DEF Comes
  <2> QED BY <1>7, <1>9, <2>1
<1>13. Around(s, a, f[1], b, k)
  BY <1>5, <1>6, <1>10, <1>11, <1>12 DEF Around
<1> QED BY <1>3, <1>5, <1>13

\* The creation of x: it reads x before it makes it, when nobody can have it.
LEMMA MakingSafe ==
  ASSUME NEW x, NEW a \in Seq(Steps), Does(a, x, {"read"}), NEW b \in Seq(Steps), Does(b, x, {"release"}),
         NEW f \in Seq(Steps), Len(f) = 1, f[1] = <<"insert", x>>, NEW s, s = (a \o f) \o b,
         NEW n, NEW d, NEW w
  PROVE  Safe(s, x, FALSE, "none", n, d, w)
<1>1. PICK k \in 1..Len(s) : Around(s, a, f[1], b, k)
  BY AroundPlaces
<1>2. /\ s[k] = <<"insert", x>> /\ Len(s) \in Nat
      /\ \A i \in 1..Len(s) : i < k /\ s[i][2] = x => s[i][1] = "read"
      /\ \A i \in 1..Len(s) : k < i /\ s[i][2] = x => s[i][1] = "release"
  <2>1. /\ \A i \in 1..Len(s) : i < k /\ s[i][2] = x => s[i][1] \in {"read"}
        /\ \A i \in 1..Len(s) : k < i /\ s[i][2] = x => s[i][1] \in {"release"}
    BY <1>1 DEF Around
  <2> QED BY <1>1, <2>1 DEF Around
<1>3. \A i \in 1..Len(s) : s[i][2] = x => s[i][1] \in {"read", "insert", "release"}
  BY <1>2
<1>4. Does(s, x, {"read", "insert", "release"})
  BY <1>3 DEF Does
<1>5. \A op : op \notin {"read", "insert", "release"} => ~Comes(s, op, x)
  BY <1>4, DoesNot
<1>6. Comes(s, "insert", x) /\ ~Comes(s, "write", x) /\ ~Comes(s, "regain", x) /\ ~Comes(s, "terminate", x)
  BY <1>2, <1>5 DEF Comes
<1>7. \A i \in 1..Len(s) : s[i] # <<"terminate", x>>
  BY <1>6 DEF Comes
<1>8. ~Visits(s, x)
  BY <1>6 DEF Visits, Turning
<1>9. TurnsLast(s, x)
  <2>1. SUFFICES ASSUME NEW i \in 1..Len(s), NEW j \in 1..Len(s),
                        i < j, s[i][2] = x, s[i][1] \in Turning, s[j][2] = x
                 PROVE  s[j][1] \notin Asking \cup Turning
    BY DEF TurnsLast
  <2>2. ~(i < k)
    BY <1>2, <2>1 DEF Turning
  <2>3. k < j
    BY <1>2, <2>1, <2>2
  <2> QED BY <1>2, <2>1, <2>3 DEF Asking, Turning
<1>10. InOrder(s, x)
  BY <1>6, <1>7, <1>8, <1>9 DEF InOrder, WritesFirst, AsksFirst
<1>11. GoneSafe(s, x, "none")
  BY <1>6 DEF GoneSafe
<1>12. UnmadeByWriter(s, x, "none", n) /\ WaitsWithNamespace(s, x, "none", n)
       /\ ReleasesWithNamespace(s, x, "none", n, d, w)
  BY <1>7, <1>8 DEF UnmadeByWriter, WaitsWithNamespace, ReleasesWithNamespace
<1> QED BY <1>10, <1>11, <1>12 DEF Safe

\* The deletion of x: it writes the namespace and x first.
LEMMA UnmakingSafe ==
  ASSUME NEW x, NEW a \in Seq(Steps), Does(a, x, {"write", "request_edit"}),
         Does(a, Namespace, {"write", "request_edit"}), Comes(a, "write", x), Comes(a, "write", Namespace),
         NEW b \in Seq(Steps), Does(b, x, {}),
         NEW f \in Seq(Steps), Len(f) = 1, f[1] = <<"terminate", x>>, NEW s, s = (a \o f) \o b,
         NEW m, NEW n, NEW d, NEW w
  PROVE  Safe(s, x, TRUE, m, n, d, w)
<1>1. PICK k \in 1..Len(s) : Around(s, a, f[1], b, k)
  BY AroundPlaces
<1>2. /\ s[k] = <<"terminate", x>> /\ Len(s) \in Nat
      /\ \A i \in 1..Len(s) : i < k /\ s[i][2] \in {x, Namespace} => s[i][1] \in {"write", "request_edit"}
      /\ \A i \in 1..Len(s) : k < i => s[i][2] # x
      /\ \E i \in 1..Len(s) : i < k /\ s[i] = <<"write", x>>
      /\ \E i \in 1..Len(s) : i < k /\ s[i] = <<"write", Namespace>>
  <2>1. \A z \in {x, Namespace} : \A i \in 1..Len(s) : i < k /\ s[i][2] = z => s[i][1] \in {"write", "request_edit"}
    BY <1>1 DEF Around
  <2>2. \A i \in 1..Len(s) : k < i /\ s[i][2] = x => s[i][1] \in {}
    <3>1. \A K : Does(b, x, K) => \A i \in 1..Len(s) : k < i /\ s[i][2] = x => s[i][1] \in K
      BY <1>1 DEF Around
    <3>2. Does(b, x, {})
      OBVIOUS
    <3> QED BY ONLY <3>1, <3>2
  <2>3. /\ s[k] = <<"terminate", x>> /\ Len(s) \in Nat
        /\ \E i \in 1..Len(s) : i < k /\ s[i] = <<"write", x>>
        /\ \E i \in 1..Len(s) : i < k /\ s[i] = <<"write", Namespace>>
    BY <1>1 DEF Around
  <2> QED BY <2>1, <2>2, <2>3
<1>3. ASSUME NEW i \in 1..Len(s), s[i][2] = x PROVE (i < k /\ s[i][1] \in {"write", "request_edit"}) \/ i = k
  <2>1. ~(k < i) /\ (i < k => s[i][1] \in {"write", "request_edit"})
    BY <1>2, <1>3
  <2>2. i \in Int /\ k \in Int
    OBVIOUS
  <2> QED BY ONLY <2>1, <2>2
<1>4. ASSUME NEW i \in 1..Len(s), s[i][2] = x PROVE s[i][1] \in {"write", "request_edit", "terminate"}
  BY ONLY <1>2, <1>3, <1>4
<1>5. Does(s, x, {"write", "request_edit", "terminate"})
  BY <1>4 DEF Does
<1>6. \A op : op \notin {"write", "request_edit", "terminate"} => ~Comes(s, op, x)
  BY <1>5, DoesNot
<1>7. ~Comes(s, "insert", x) /\ ~Comes(s, "release", x) /\ Comes(s, "terminate", x)
  BY <1>2, <1>6 DEF Comes
<1>8. ASSUME NEW i \in 1..Len(s), s[i][2] = x, s[i][1] \in Turning PROVE i = k
  BY <1>3, <1>8 DEF Turning
<1>9. \A i \in 1..Len(s) : s[i] = <<"terminate", x>> => i = k
  BY <1>8 DEF Turning
<1>10. TurnsLast(s, x)
  BY <1>2, <1>8 DEF TurnsLast
<1>11. WritesFirst(s, x)
  BY <1>2, <1>9 DEF WritesFirst
<1>12. ~Visits(s, x)
  BY <1>7 DEF Visits, Turning
<1>13. InOrder(s, x)
  BY <1>7, <1>10, <1>11, <1>12 DEF InOrder, AsksFirst
<1>14. UnmadeByWriter(s, x, m, n)
  BY <1>2, <1>9 DEF UnmadeByWriter
<1>15. WaitsWithNamespace(s, x, m, n) /\ ReleasesWithNamespace(s, x, m, n, d, w)
  BY <1>7, <1>12 DEF WaitsWithNamespace, ReleasesWithNamespace
<1> QED BY <1>7, <1>13, <1>14, <1>15 DEF Safe

(***************************************************************************)
(* The threads.                                                            *)
(***************************************************************************)
\* No table is another poset's schema, or the primitives: the code lets a schema be
\* deleted while posets have it.
NoTableIsNeeded == \A y \in Posets : Needs(y) \cap Tables = {}
\* t does not use x once it is gone.
SafeAt(t, x) ==
  Safe(todo[t], x, x \in exists, mode[t][x], mode[t][Namespace], depth[t][x], switch_depth[t][x])
\* Only tables are unmade, by one thread at a time, and made again by one; and every
\* thread is safe of every table.
Gone ==
  /\ Posets \ exists \subseteq Tables
  /\ \A t \in Threads, y \in Posets : Comes(todo[t], "terminate", y) => y \in Tables
  /\ \A t, u \in Threads, x \in Tables, op \in Turning :
       Comes(todo[t], op, x) /\ Comes(todo[u], op, x) => t = u
  /\ \A t \in Threads, x \in Tables : SafeAt(t, x)

\* A table is in no other chain, and the namespace not in its own.
LEMMA TablesAway ==
  ASSUME NoTableIsNeeded, NEW x \in Tables
  PROVE  /\ x \in Posets /\ x # Namespace /\ x \notin Chain(Namespace) /\ Namespace \notin Chain(x)
         /\ \A y \in Posets : y # x => x \notin Chain(y)
<1>1. x \in Posets /\ x \notin Chain(Namespace)
  BY PosetsAssumption, BaseAssumption
<1>2. x # Namespace
  BY <1>1, ConstantsAre, ChainIs
<1> DEFINE G == {y \in Nodes : x \in Chain(y) => y = x}
<1>3. ASSUME NEW y \in Nodes, Needed[y] \cap Nodes \subseteq G PROVE y \in G
  <2>1. SUFFICES ASSUME x \in Chain(y), y # x PROVE FALSE
    OBVIOUS
  <2>2. y \in Posets
    BY <1>2, <2>1, ConstantsAre, ChainIs DEF Nodes
  <2>3. PICK z \in Needs(y) : x \in Chain(z)
    BY <1>1, <2>1, <2>2, ChainIs
  <2>4. Needed[y] = Needs(y) /\ Needed[y] \subseteq Nodes
    BY <2>2, ConstantsAre DEF Needed, Nodes
  <2>5. z = x
    BY <1>3, <2>3, <2>4
  <2> QED BY <2>2, <2>3, <2>5 DEF NoTableIsNeeded
<1>4. Nodes \subseteq G
  <2> HIDE DEF G
  <2> QED BY <1>3, ConstantsAre, GroundedInduction
<1>5. \A y \in Posets : y # x => x \notin Chain(y)
  BY <1>4 DEF Nodes
<1>6. Namespace \notin Chain(x)
  <2>1. SUFFICES ASSUME Namespace \in Chain(x) PROVE FALSE
    OBVIOUS
  <2> DEFINE H == {y \in Nodes : Namespace \in Chain(y) => y = Namespace}
  <2>2. ASSUME NEW y \in Nodes, Needed[y] \cap Nodes \subseteq H PROVE y \in H
    <3>1. SUFFICES ASSUME Namespace \in Chain(y), y # Namespace PROVE FALSE
      OBVIOUS
    <3>2. y \in Posets
      BY <3>1, ConstantsAre, ChainIs DEF Nodes
    <3>3. PICK z \in Needs(y) : Namespace \in Chain(z)
      BY <3>1, <3>2, ConstantsAre, ChainIs
    <3>4. Needed[y] = Needs(y) /\ Needed[y] \subseteq Nodes
      BY <3>2, ConstantsAre DEF Needed, Nodes
    <3>5. z = Namespace
      BY <2>2, <3>3, <3>4
    <3> QED BY <3>2, <3>3, <3>5, ConstantsAre
  <2>3. Nodes \subseteq H
    <3> HIDE DEF H
    <3> QED BY <2>2, ConstantsAre, GroundedInduction
  <2> QED BY <1>1, <1>2, <2>1, <2>3 DEF Nodes
<1> QED BY <1>1, <1>2, <1>5, <1>6

\* Ahead tells what comes.
LEMMA AheadIs ==
  ASSUME IInv, NEW t \in Threads, NEW op, NEW x
  PROVE  Ahead(t, op, x) <=> Comes(todo[t], op, x)
<1>1. PICK s : s = todo[t]
  OBVIOUS
<1>2. s \in Seq(Steps) /\ DOMAIN s = 1..Len(s)
  BY <1>1 DEF IInv
<1> QED BY <1>1, <1>2 DEF Ahead, Comes, ToSet

\* A step of t, or the beginning of its next call, that leaves t safe leaves everybody
\* safe, if all that the others see is t's access.
LEMMA OthersStay ==
  ASSUME IInv, Gone, NEW t \in Threads, NEW s \in Seq(Steps), todo' = [todo EXCEPT ![t] = s],
         exists' = exists,
         \A u \in Threads, z \in Posets : u # t =>
           mode'[u][z] = mode[u][z] /\ depth'[u][z] = depth[u][z] /\ switch_depth'[u][z] = switch_depth[u][z],
         \A x \in Tables :
           Safe(s, x, x \in exists, mode'[t][x], mode'[t][Namespace], depth'[t][x], switch_depth'[t][x]),
         \A op \in Turning, z \in Posets : Comes(s, op, z) =>
           \/ Comes(todo[t], op, z)
           \/ z \in Tables /\ \A u \in Threads : ~Comes(todo[u], op, z)
  PROVE  Gone'
<1>1. todo'[t] = s /\ \A u \in Threads : u # t => todo'[u] = todo[u]
  BY DEF IInv
<1>2. Tables \subseteq Posets /\ Namespace \in Posets
  BY PosetsAssumption
<1>3. (Posets \ exists \subseteq Tables)'
  BY DEF Gone
<1>4. ASSUME NEW u \in Threads, NEW y \in Posets, Comes(todo'[u], "terminate", y) PROVE y \in Tables
  <2>1. CASE u # t
    BY <1>1, <1>4, <2>1 DEF Gone
  <2>2. CASE u = t
    BY <1>1, <1>4, <2>2 DEF Gone, Turning
  <2> QED BY <2>1, <2>2
<1>5. ASSUME NEW u \in Threads, NEW v \in Threads, NEW x \in Tables, NEW op \in Turning,
             Comes(todo'[u], op, x), Comes(todo'[v], op, x)
      PROVE  u = v
  <2>1. CASE Comes(s, op, x) => Comes(todo[t], op, x)
    <3>1. Comes(todo[u], op, x) /\ Comes(todo[v], op, x)
      BY <1>1, <1>5, <2>1
    <3> QED BY <3>1 DEF Gone
  <2>2. CASE \A w \in Threads : ~Comes(todo[w], op, x)
    BY <1>1, <1>5, <2>2
  <2> QED BY <1>2, <2>1, <2>2
<1>6. ASSUME NEW u \in Threads, NEW x \in Tables PROVE SafeAt(u, x)'
  <2>1. CASE u # t
    <3>1. SafeAt(u, x)
      BY DEF Gone
    <3>2. /\ mode'[u][x] = mode[u][x] /\ depth'[u][x] = depth[u][x] /\ switch_depth'[u][x] = switch_depth[u][x]
          /\ mode'[u][Namespace] = mode[u][Namespace] /\ todo'[u] = todo[u]
      BY <1>1, <1>2, <2>1
    <3> QED BY <3>1, <3>2 DEF SafeAt
  <2>2. CASE u = t
    BY <1>1, <2>2 DEF SafeAt
  <2> QED BY <2>1, <2>2
<1> QED BY <1>3, <1>4, <1>5, <1>6 DEF Gone

\* A step of t on x changes nothing but t's access to x.
AccessOnly(t, x) == \A u \in Threads, z \in Posets : u # t \/ z # x =>
  mode'[u][z] = mode[u][z] /\ depth'[u][z] = depth[u][z] /\ switch_depth'[u][z] = switch_depth[u][z]

\* What SetAccess makes of the access, whatever it is set to.
LEMMA AccessIs ==
  ASSUME TypeOK, NEW t \in Threads, NEW x \in Posets, NEW m, NEW d, NEW s, SetAccess(t, x, m, d, s)
  PROVE  mode'[t][x] = m /\ depth'[t][x] = d /\ switch_depth'[t][x] = s /\ AccessOnly(t, x)
<1>1. /\ mode \in [Threads -> [Posets -> {"none", "read", "write"}]]
      /\ depth \in [Threads -> [Posets -> Nat]] /\ switch_depth \in [Threads -> [Posets -> Nat]]
  BY DEF TypeOK
<1> QED BY <1>1 DEF SetAccess, AccessOnly

\* A step of t that is done, other than an insertion in the namespace or a deletion.
LEMMA DoneStays ==
  ASSUME IInv, Gone, NoTableIsNeeded, NEW t \in Threads, NEW y \in Posets, NEW op \in Ops, op \notin Turning,
         Head1(t, op, y), Done(t), AccessOnly(t, y), exists' = exists,
         op = "read" => /\ mode'[t][y] = (IF mode[t][y] = "none" THEN "read" ELSE mode[t][y])
                        /\ switch_depth'[t][y] = switch_depth[t][y],
         op = "write" => mode'[t][y] = "write",
         op = "release" => mode'[t][y] \in {"none", mode[t][y]} /\ switch_depth'[t][y] = switch_depth[t][y],
         op = "regain" => mode'[t][y] = "read",
         op \in {"request_edit", "release_edit"} =>
           mode'[t][y] = mode[t][y] /\ depth'[t][y] = depth[t][y] /\ switch_depth'[t][y] = switch_depth[t][y]
  PROVE  Gone'
<1>1. PICK s : s = todo[t]
  OBVIOUS
<1>2. PICK r : r = Tail(s)
  OBVIOUS
<1>3. s \in Seq(Steps) /\ s # << >> /\ Head(s) = <<op, y>> /\ todo' = [todo EXCEPT ![t] = r] /\ r \in Seq(Steps)
  BY <1>1, <1>2 DEF IInv, Head1, Done
<1>4. ASSUME NEW x \in Tables
      PROVE  Safe(r, x, x \in exists, mode'[t][x], mode'[t][Namespace], depth'[t][x], switch_depth'[t][x])
  <2>1. x \in Posets /\ x # Namespace /\ Namespace \in Posets
    BY TablesAway, PosetsAssumption
  <2>2. PICK here : here = (x \in exists)
    OBVIOUS
  <2>3. PICK m, n, d, w : m = mode[t][x] /\ n = mode[t][Namespace] /\ d = depth[t][x] /\ w = switch_depth[t][x]
    OBVIOUS
  <2>4. PICK m2, n2, d2, w2 :
          m2 = mode'[t][x] /\ n2 = mode'[t][Namespace] /\ d2 = depth'[t][x] /\ w2 = switch_depth'[t][x]
    OBVIOUS
  <2>5. Safe(s, x, here, m, n, d, w)
    BY <1>1, <2>2, <2>3 DEF Gone, SafeAt
  <2>6. /\ y = Namespace \/ n2 = n
        /\ y # x => m2 = m /\ d2 = d /\ w2 = w
    BY <2>1, <2>3, <2>4 DEF AccessOnly
  <2>7. y = Namespace => (op = "write" => n2 = "write") /\ (op = "request_edit" => n2 = n)
    BY <2>3, <2>4
  <2>8. y # x \/ op \in {"request_edit", "release_edit", "insert"} => m2 = m /\ d2 = d /\ w2 = w
    BY <2>3, <2>4, <2>6 DEF Turning
  <2>9. y = x => /\ op = "read" => m2 = (IF m = "none" THEN "read" ELSE m) /\ w2 = w
                 /\ op = "write" => m2 = "write"
                 /\ op = "release" => m2 \in {"none", m} /\ w2 = w
                 /\ op = "regain" => m2 = "read"
                 /\ op = "terminate" => m2 = "none"
    BY <2>3, <2>4 DEF Turning
  <2>10. here \in BOOLEAN
    BY <2>2
  <2>11. here = IF y = x /\ op \in Turning THEN op = "insert" ELSE here
    OBVIOUS
  <2>12. Changes(op, y, x, here, m, n, d, w, here, m2, n2, d2, w2)
    BY ONLY <2>6, <2>7, <2>8, <2>9, <2>11 DEF Changes
  <2>13. s \in Seq(Steps) /\ s # << >> /\ r = Tail(s) /\ op \in Ops /\ Head(s) = <<op, y>> /\ x # Namespace
    BY <1>2, <1>3, <2>1
  <2>14. Safe(r, x, here, m2, n2, d2, w2)
    BY ONLY <2>5, <2>10, <2>12, <2>13, StepSafe
  <2> QED BY <2>2, <2>4, <2>14
<1>5. \A o, z : Comes(r, o, z) => Comes(todo[t], o, z)
  BY <1>1, <1>2, <1>3, TailComes
<1>6. \A u \in Threads, z \in Posets : u # t =>
        mode'[u][z] = mode[u][z] /\ depth'[u][z] = depth[u][z] /\ switch_depth'[u][z] = switch_depth[u][z]
  BY DEF AccessOnly
<1> QED BY <1>3, <1>4, <1>5, <1>6, OthersStay

\* A step of get_read_access.
LEMMA ReadStays ==
  ASSUME IInv, Gone, NoTableIsNeeded, NEW t \in Threads, NEW x \in Posets, Read(t, x)
  PROVE  Gone'
<1>1. PICK op : op = "read"
  OBVIOUS
<1>2. op \in Ops /\ op \notin Turning /\ Head1(t, op, x) /\ Done(t) /\ exists' = exists
  BY <1>1 DEF Read, Ops, Turning
<1>3. SetAccess(t, x, IF mode[t][x] = "none" THEN "read" ELSE mode[t][x], depth[t][x] + 1, switch_depth[t][x])
  BY DEF Read
<1>4. /\ mode'[t][x] = (IF mode[t][x] = "none" THEN "read" ELSE mode[t][x])
      /\ switch_depth'[t][x] = switch_depth[t][x] /\ AccessOnly(t, x)
  BY <1>3, AccessIs DEF IInv
<1> QED BY <1>1, <1>2, <1>4, DoneStays

\* A step of get_read_write_access.
LEMMA WriteStays ==
  ASSUME IInv, Gone, NoTableIsNeeded, NEW t \in Threads, NEW x \in Posets, Write(t, x)
  PROVE  Gone'
<1>1. PICK op : op = "write"
  OBVIOUS
<1>2. op \in Ops /\ op \notin Turning /\ Head1(t, op, x) /\ Done(t) /\ exists' = exists
  BY <1>1 DEF Write, Ops, Turning
<1>3. SetAccess(t, x, "write", depth[t][x] + 1, switch_depth[t][x])
  BY DEF Write
<1>4. mode'[t][x] = "write" /\ AccessOnly(t, x)
  BY <1>3, AccessIs DEF IInv
<1> QED BY <1>1, <1>2, <1>4, DoneStays

\* A reader again.
LEMMA RegainStays ==
  ASSUME IInv, Gone, NoTableIsNeeded, NEW t \in Threads, NEW x \in Posets, Regain(t, x)
  PROVE  Gone'
<1>1. PICK op : op = "regain"
  OBVIOUS
<1>2. op \in Ops /\ op \notin Turning /\ Head1(t, op, x) /\ Done(t) /\ exists' = exists
  BY <1>1 DEF Regain, Ops, Turning
<1>3. SetAccess(t, x, "read", depth[t][x], 0)
  BY DEF Regain
<1>4. mode'[t][x] = "read" /\ AccessOnly(t, x)
  BY <1>3, AccessIs DEF IInv
<1> QED BY <1>1, <1>2, <1>4, DoneStays

\* An edit mode begins or ends.
LEMMA EditModeStays ==
  ASSUME IInv, Gone, NoTableIsNeeded, NEW t \in Threads, NEW x \in Posets, EditMode(t, x)
  PROVE  Gone'
<1>1. PICK op \in {"request_edit", "release_edit"} : Head1(t, op, x)
  BY DEF EditMode
<1>2. op \in Ops /\ op \notin Turning /\ Head1(t, op, x) /\ Done(t) /\ exists' = exists
      /\ mode' = mode /\ depth' = depth /\ switch_depth' = switch_depth
  BY <1>1 DEF EditMode, Ops, Turning, locks
<1>3. /\ mode'[t][x] = mode[t][x] /\ depth'[t][x] = depth[t][x] /\ switch_depth'[t][x] = switch_depth[t][x]
      /\ AccessOnly(t, x)
  BY <1>2 DEF AccessOnly
<1>4. op # "read" /\ op # "write" /\ op # "release" /\ op # "regain"
  BY <1>1
<1> QED BY <1>2, <1>3, <1>4, DoneStays

\* An upgrade that gives read access up.
LEMMA GiveUpStays ==
  ASSUME IInv, Gone, NoTableIsNeeded, NEW t \in Threads, NEW y \in Posets, GiveUpRead(t, y)
  PROVE  Gone'
<1>1. PICK s : s = todo[t]
  OBVIOUS
<1>2. s \in Seq(Steps) /\ s # << >> /\ Head(s) = <<"write", y>> /\ mode[t][y] = "read"
      /\ todo' = todo /\ exists' = exists
  BY <1>1 DEF IInv, GiveUpRead, Head1
<1>3. todo' = [todo EXCEPT ![t] = s]
  BY <1>1, <1>2 DEF IInv
<1>4. mode'[t][y] = "none" /\ AccessOnly(t, y)
  <2>1. SetAccess(t, y, "none", depth[t][y], depth[t][y])
    BY DEF GiveUpRead
  <2> QED BY <2>1, AccessIs DEF IInv
<1>5. ASSUME NEW x \in Tables
      PROVE  Safe(s, x, x \in exists, mode'[t][x], mode'[t][Namespace], depth'[t][x], switch_depth'[t][x])
  <2>1. x \in Posets /\ x # Namespace /\ Namespace \in Posets
    BY TablesAway, PosetsAssumption
  <2>2. PICK here : here = (x \in exists)
    OBVIOUS
  <2>3. PICK m, n, d, w : m = mode[t][x] /\ n = mode[t][Namespace] /\ d = depth[t][x] /\ w = switch_depth[t][x]
    OBVIOUS
  <2>4. PICK m2, n2, d2, w2 :
          m2 = mode'[t][x] /\ n2 = mode'[t][Namespace] /\ d2 = depth'[t][x] /\ w2 = switch_depth'[t][x]
    OBVIOUS
  <2>5. Safe(s, x, here, m, n, d, w)
    BY <1>1, <2>2, <2>3 DEF Gone, SafeAt
  <2>6. /\ y # x => m2 = m /\ d2 = d /\ w2 = w
        /\ y = x => m = "read" /\ m2 = "none"
        /\ y # Namespace => n2 = n
        /\ y = Namespace => n = "read" /\ n2 = "none"
    BY <1>2, <1>4, <2>1, <2>3, <2>4 DEF AccessOnly
  <2>7. here \in BOOLEAN
    BY <2>2
  <2>8. s \in Seq(Steps) /\ s # << >> /\ Head(s) = <<"write", y>> /\ x # Namespace
    BY <1>2, <2>1
  <2>9. Safe(s, x, here, m2, n2, d2, w2)
    BY ONLY <2>5, <2>6, <2>7, <2>8, GiveUpSafe
  <2> QED BY <2>2, <2>4, <2>9
<1>6. \A o, z : Comes(s, o, z) => Comes(todo[t], o, z)
  BY <1>1
<1>7. \A u \in Threads, z \in Posets : u # t =>
        mode'[u][z] = mode[u][z] /\ depth'[u][z] = depth[u][z] /\ switch_depth'[u][z] = switch_depth[u][z]
  BY <1>4 DEF AccessOnly
<1> QED BY <1>2, <1>3, <1>5, <1>6, <1>7, OthersStay

\* A release, one that has to wait to read again included.
LEMMA ReleaseStays ==
  ASSUME IInv, Gone, NoTableIsNeeded, NEW t \in Threads, NEW y \in Posets, Release(t, y)
  PROVE  Gone'
<1>1. PICK e : e = depth[t][y] - 1
  OBVIOUS
<1> DEFINE q == mode[t][y] = "write" /\ e > 0 /\ e = switch_depth[t][y]
<1>2. /\ Head1(t, "release", y) /\ exists' = exists
      /\ q => SetAccess(t, y, "none", e, 0) /\ todo' = [todo EXCEPT ![t] = <<<<"regain", y>>>> \o Tail(@)]
      /\ ~q => SetAccess(t, y, IF e = 0 THEN "none" ELSE mode[t][y], e, switch_depth[t][y]) /\ Done(t)
  BY <1>1 DEF Release
<1>3. CASE ~q
  <2>1. PICK op : op = "release"
    OBVIOUS
  <2>2. op \in Ops /\ op \notin Turning /\ Head1(t, op, y) /\ Done(t)
    BY <1>2, <1>3, <2>1 DEF Ops, Turning
  <2>3. PICK m : m = IF e = 0 THEN "none" ELSE mode[t][y]
    OBVIOUS
  <2>4. mode'[t][y] = m /\ switch_depth'[t][y] = switch_depth[t][y] /\ AccessOnly(t, y)
    BY <1>2, <1>3, <2>3, AccessIs DEF IInv
  <2>5. mode'[t][y] \in {"none", mode[t][y]}
    BY <2>3, <2>4
  <2> QED BY <1>2, <2>1, <2>2, <2>4, <2>5, DoneStays
<1>4. CASE q
  <2>1. PICK s : s = todo[t]
    OBVIOUS
  <2>2. PICK r : r = <<<<"regain", y>>>> \o Tail(s)
    OBVIOUS
  <2>3. s \in Seq(Steps) /\ s # << >> /\ Head(s) = <<"release", y>> /\ todo' = [todo EXCEPT ![t] = r]
    BY <1>2, <1>4, <2>1, <2>2 DEF IInv, Head1
  <2>4. mode'[t][y] = "none" /\ AccessOnly(t, y)
    BY <1>2, <1>4, AccessIs DEF IInv
  <2>5. depth[t][y] \in Nat /\ switch_depth[t][y] \in Nat
    BY HasIs DEF IInv
  <2>6. mode[t][y] = "write" /\ EndsUpgrade(depth[t][y], switch_depth[t][y])
    BY <1>1, <1>4, <2>5 DEF EndsUpgrade
  <2>7. ASSUME NEW x \in Tables
        PROVE  Safe(r, x, x \in exists, mode'[t][x], mode'[t][Namespace], depth'[t][x], switch_depth'[t][x])
    <3>1. x \in Posets /\ x # Namespace /\ Namespace \in Posets
      BY TablesAway, PosetsAssumption
    <3>2. PICK here : here = (x \in exists)
      OBVIOUS
    <3>3. PICK m, n, d, w : m = mode[t][x] /\ n = mode[t][Namespace] /\ d = depth[t][x] /\ w = switch_depth[t][x]
      OBVIOUS
    <3>4. PICK m2, n2, d2, w2 :
            m2 = mode'[t][x] /\ n2 = mode'[t][Namespace] /\ d2 = depth'[t][x] /\ w2 = switch_depth'[t][x]
      OBVIOUS
    <3>5. Safe(s, x, here, m, n, d, w)
      BY <2>1, <3>2, <3>3 DEF Gone, SafeAt
    <3>6. /\ y # x => m2 = m /\ d2 = d /\ w2 = w
          /\ y = x => m = "write" /\ m2 = "none" /\ EndsUpgrade(d, w)
          /\ y # Namespace => n2 = n
      BY <2>4, <2>6, <3>1, <3>3, <3>4 DEF AccessOnly
    <3>7. here \in BOOLEAN
      BY <3>2
    <3>8. s \in Seq(Steps) /\ s # << >> /\ Head(s) = <<"release", y>> /\ x # Namespace
          /\ r = Regaining(s, y) /\ y \in Posets
      BY <2>2, <2>3, <3>1 DEF Regaining
    <3>9. Safe(r, x, here, m2, n2, d2, w2)
      BY ONLY <3>5, <3>6, <3>7, <3>8, DowngradeSafe
    <3> QED BY <3>2, <3>4, <3>9
  <2>8. r \in Seq(Steps) /\ \A o, z : Comes(r, o, z) => o = "regain" \/ Comes(s, o, z)
    <3>1. PICK f : f = <<<<"regain", y>>>>
      OBVIOUS
    <3>2. f \in Seq(Steps) /\ Len(f) = 1 /\ f[1] = <<"regain", y>>
      BY <3>1, OneStep DEF Ops
    <3>3. Tail(s) \in Seq(Steps)
      BY <2>3
    <3>4. r \in Seq(Steps) /\ r # << >> /\ Head(r) = <<"regain", y>>
      <4>1. /\ f \o Tail(s) \in Seq(Steps) /\ Len(f) \in Nat /\ Len(Tail(s)) \in Nat
            /\ Len(f \o Tail(s)) = Len(f) + Len(Tail(s))
            /\ \A i \in 1..Len(f \o Tail(s)) : (f \o Tail(s))[i] = IF i <= Len(f) THEN f[i] ELSE Tail(s)[i - Len(f)]
        BY <3>2, <3>3, ConcatPlaces
      <4>2. r = f \o Tail(s)
        BY <2>2, <3>1
      <4> QED BY <3>2, <4>1, <4>2
    <3>5. Tail(r) = Tail(s)
      BY <2>2, <3>1, <3>2, <3>3, TailConcat
    <3>6. \A o, z : Comes(r, o, z) => <<"regain", y>> = <<o, z>> \/ Comes(Tail(s), o, z)
      BY <3>4, <3>5, TailComes
    <3>7. \A o, z : Comes(Tail(s), o, z) => Comes(s, o, z)
      BY <2>3, TailComes
    <3> QED BY <3>4, <3>6, <3>7
  <2>9. \A op \in Turning, z \in Posets : Comes(r, op, z) => Comes(todo[t], op, z)
    BY <2>1, <2>8 DEF Turning
  <2>10. \A u \in Threads, z \in Posets : u # t =>
          mode'[u][z] = mode[u][z] /\ depth'[u][z] = depth[u][z] /\ switch_depth'[u][z] = switch_depth[u][z]
    BY <2>4 DEF AccessOnly
  <2> QED BY <1>2, <2>3, <2>7, <2>8, <2>9, <2>10, OthersStay
<1> QED BY <1>3, <1>4

\* The step that makes or unmakes y leaves its own thread safe of every table.
LEMMA TurnerSafe ==
  ASSUME IInv, Gone, NoTableIsNeeded, NEW t \in Threads, NEW y \in Posets, NEW op \in Turning,
         Head1(t, op, y), Done(t), AccessOnly(t, y),
         exists' = IF op = "insert" THEN exists \union {y} ELSE exists \ {y},
         op = "terminate" => mode'[t][y] = "none",
         op = "insert" =>
           mode'[t][y] = mode[t][y] /\ depth'[t][y] = depth[t][y] /\ switch_depth'[t][y] = switch_depth[t][y],
         NEW x \in Tables
  PROVE  SafeAt(t, x)'
<1>1. PICK s : s = todo[t]
  OBVIOUS
<1>2. PICK r : r = Tail(s)
  OBVIOUS
<1>3. s \in Seq(Steps) /\ s # << >> /\ Head(s) = <<op, y>> /\ todo'[t] = r
  BY <1>1, <1>2 DEF IInv, Head1, Done
<1>4. x \in Posets /\ x # Namespace /\ Namespace \in Posets /\ op \in Ops
  BY TablesAway, PosetsAssumption DEF Turning, Ops
<1>5. PICK here, here2 : here = (x \in exists) /\ here2 = (x \in exists')
  OBVIOUS
<1>6. PICK m, n, d, w : m = mode[t][x] /\ n = mode[t][Namespace] /\ d = depth[t][x] /\ w = switch_depth[t][x]
  OBVIOUS
<1>7. PICK m2, n2, d2, w2 :
        m2 = mode'[t][x] /\ n2 = mode'[t][Namespace] /\ d2 = depth'[t][x] /\ w2 = switch_depth'[t][x]
  OBVIOUS
<1>8. Safe(s, x, here, m, n, d, w)
  BY <1>1, <1>5, <1>6 DEF Gone, SafeAt
<1>9. here \in BOOLEAN /\ here2 \in BOOLEAN
  BY <1>5
<1>10. here2 = IF y = x /\ op \in Turning THEN op = "insert" ELSE here
  <2>1. CASE y = x /\ op = "insert"
    BY <1>5, <2>1
  <2>2. CASE y = x /\ op = "terminate"
    BY <1>5, <2>2
  <2>3. CASE y # x
    <3>1. x \in exists' <=> x \in exists
      BY <2>3
    <3> QED BY <1>5, <2>3, <3>1
  <2> QED BY <2>1, <2>2, <2>3 DEF Turning
<1>11. y = Namespace \/ n2 = n
  BY <1>4, <1>6, <1>7 DEF AccessOnly
<1>12. y # x \/ op \in {"request_edit", "release_edit", "insert"} => m2 = m /\ d2 = d /\ w2 = w
  BY <1>4, <1>6, <1>7 DEF AccessOnly, Turning
<1>13. op = "insert" \/ op = "terminate"
  BY DEF Turning
<1>14. y = x /\ op = "terminate" => m2 = "none"
  BY <1>7
<1>15. Changes(op, y, x, here, m, n, d, w, here2, m2, n2, d2, w2)
  BY ONLY <1>10, <1>11, <1>12, <1>13, <1>14 DEF Changes
<1>16. Safe(r, x, here2, m2, n2, d2, w2)
  BY ONLY <1>2, <1>3, <1>4, <1>8, <1>9, <1>15, StepSafe
<1> QED BY <1>3, <1>5, <1>7, <1>16 DEF SafeAt

\* The step that unmakes a table is its writer's, and the namespace's.
LEMMA UnmakerWrites ==
  ASSUME IInv, Gone, NEW t \in Threads, NEW x \in Posets, Head1(t, "terminate", x)
  PROVE  x \in Tables /\ x \in exists /\ mode[t][x] = "write" /\ mode[t][Namespace] = "write"
<1>1. PICK s : s = todo[t]
  OBVIOUS
<1>2. s \in Seq(Steps) /\ s # << >> /\ Head(s) = <<"terminate", x>>
  BY <1>1 DEF IInv, Head1
<1>3. 1 \in 1..Len(s) /\ s[1] = <<"terminate", x>>
  BY <1>2, TailPlaces
<1>4. Comes(s, "terminate", x)
  BY <1>3 DEF Comes
<1>5. x \in Tables
  BY <1>1, <1>4 DEF Gone
<1>6. Safe(s, x, x \in exists, mode[t][x], mode[t][Namespace], depth[t][x], switch_depth[t][x])
  BY <1>1, <1>5 DEF Gone, SafeAt
<1>7. x \in exists
  BY <1>4, <1>6 DEF Safe, GoneSafe
<1>8. UnmadeByWriter(s, x, mode[t][x], mode[t][Namespace])
  BY <1>6 DEF Safe
<1>9. \A j \in 1..Len(s) : ~(j < 1)
  OBVIOUS
<1>10. mode[t][x] = "write" /\ mode[t][Namespace] = "write"
  BY ONLY <1>3, <1>8, <1>9 DEF UnmadeByWriter
<1> QED BY <1>5, <1>7, <1>10

\* A poset is inserted in the namespace.
LEMMA InsertStays ==
  ASSUME IInv, Gone, NoTableIsNeeded, NEW t \in Threads, NEW y \in Posets, Insert(t, y)
  PROVE  Gone'
<1>1. PICK op : op = "insert"
  OBVIOUS
<1>2. /\ op \in Turning /\ Head1(t, op, y) /\ Done(t) /\ exists' = exists \union {y}
      /\ mode' = mode /\ depth' = depth /\ switch_depth' = switch_depth
  BY <1>1 DEF Insert, Turning, locks
<1>3. AccessOnly(t, y)
  BY <1>2 DEF AccessOnly
<1>4. /\ todo[t] \in Seq(Steps) /\ todo[t] # << >> /\ todo'[t] = Tail(todo[t]) /\ Head(todo[t]) = <<op, y>>
      /\ \A u \in Threads : u # t => todo'[u] = todo[u]
  BY <1>2 DEF IInv, Head1, Done
<1>5. \A o, z : \A u \in Threads : Comes(todo'[u], o, z) => Comes(todo[u], o, z)
  <2>1. \A o, z : Comes(Tail(todo[t]), o, z) => Comes(todo[t], o, z)
    BY <1>4, TailComes
  <2> QED BY <1>4, <2>1
<1>6. Comes(todo[t], "insert", y)
  BY <1>1, <1>4, TailComes
<1>7. ASSUME NEW u \in Threads, NEW x \in Tables PROVE SafeAt(u, x)'
  <2>1. CASE u = t
    BY <1>1, <1>2, <1>3, <1>7, <2>1, TurnerSafe
  <2>2. CASE u # t
    <3>1. SafeAt(u, x)
      BY DEF Gone
    <3>2. CASE x # y
      <4>1. x \in exists' <=> x \in exists
        BY <1>2, <3>2
      <4> QED BY <1>2, <1>4, <2>2, <3>1, <4>1 DEF SafeAt
    <3>3. CASE x = y
      <4>1. ~Comes(todo[u], "insert", x)
        BY <1>6, <2>2, <3>3 DEF Gone, Turning
      <4>2. SafeAt(t, x)
        BY DEF Gone
      <4>3. x \notin exists
        BY <1>6, <3>3, <4>2 DEF SafeAt, Safe
      <4>4. Safe(todo[u], x, FALSE, mode[u][x], mode[u][Namespace], depth[u][x], switch_depth[u][x])
        <5>1. (x \in exists) = FALSE
          BY <4>3
        <5> QED BY <3>1, <5>1 DEF SafeAt
      <4>5. Safe(todo[u], x, TRUE, mode[u][x], mode[u][Namespace], depth[u][x], switch_depth[u][x])
        BY <4>1, <4>4, MadeSafe
      <4>6. (x \in exists') = TRUE
        BY <1>2, <3>3
      <4> QED BY <1>2, <1>4, <2>2, <4>5, <4>6 DEF SafeAt
    <3> QED BY <3>2, <3>3
  <2> QED BY <2>1, <2>2
<1>8. (Posets \ exists \subseteq Tables)'
  BY <1>2 DEF Gone
<1>9. \A u \in Threads, z \in Posets : Comes(todo'[u], "terminate", z) => z \in Tables
  BY <1>5 DEF Gone
<1>10. \A u, v \in Threads, x \in Tables, o \in Turning : Comes(todo'[u], o, x) /\ Comes(todo'[v], o, x) => u = v
  BY <1>5 DEF Gone
<1> QED BY <1>7, <1>8, <1>9, <1>10 DEF Gone

\* A table is deleted: nobody else has the namespace, so nobody else waits for the table.
LEMMA TerminateStays ==
  ASSUME IInv, Gone, NoTableIsNeeded, NEW t \in Threads, NEW y \in Posets, Terminate(t, y)
  PROVE  Gone'
<1>1. PICK op : op = "terminate"
  OBVIOUS
<1>2. op \in Turning /\ Head1(t, op, y) /\ Done(t) /\ exists' = exists \ {y}
  BY <1>1 DEF Terminate, Turning
<1>3. mode'[t][y] = "none" /\ AccessOnly(t, y)
  <2>1. SetAccess(t, y, "none", 0, 0)
    BY DEF Terminate
  <2> QED BY <2>1, AccessIs DEF IInv
<1>4. /\ todo[t] \in Seq(Steps) /\ todo[t] # << >> /\ todo'[t] = Tail(todo[t]) /\ Head(todo[t]) = <<op, y>>
      /\ \A u \in Threads : u # t => todo'[u] = todo[u] /\ todo[u] \in Seq(Steps)
  BY <1>2 DEF IInv, Head1, Done
<1>5. \A o, z : \A u \in Threads : Comes(todo'[u], o, z) => Comes(todo[u], o, z)
  <2>1. \A o, z : Comes(Tail(todo[t]), o, z) => Comes(todo[t], o, z)
    BY <1>4, TailComes
  <2> QED BY <1>4, <2>1
<1>6. Comes(todo[t], "terminate", y)
  BY <1>1, <1>4, TailComes
<1>7. y \in Tables /\ y \in exists /\ mode[t][y] = "write" /\ mode[t][Namespace] = "write"
  BY <1>1, <1>2, UnmakerWrites
<1>8. ASSUME NEW u \in Threads, NEW x \in Tables PROVE SafeAt(u, x)'
  <2>1. CASE u = t
    BY <1>1, <1>2, <1>3, <1>8, <2>1, TurnerSafe
  <2>2. CASE u # t
    <3>1. SafeAt(u, x)
      BY DEF Gone
    <3>2. /\ x \in Posets /\ Namespace \in Posets /\ todo'[u] = todo[u]
          /\ mode'[u][x] = mode[u][x] /\ depth'[u][x] = depth[u][x] /\ switch_depth'[u][x] = switch_depth[u][x]
          /\ mode'[u][Namespace] = mode[u][Namespace]
      BY <1>3, <1>4, <2>2, PosetsAssumption DEF AccessOnly
    <3>3. CASE x # y
      <4>1. x \in exists' <=> x \in exists
        BY <1>2, <3>3
      <4> QED BY <3>1, <3>2, <4>1 DEF SafeAt
    <3>4. CASE x = y
      <4>1. ~Comes(todo[u], "terminate", x)
        BY <1>6, <2>2, <3>4 DEF Gone, Turning
      <4>2. mode[u][x] = "none" /\ mode[u][Namespace] = "none"
        BY <1>7, <2>2, <3>2, <3>4 DEF IInv, Exclusive
      <4>3. (x \in exists) = TRUE /\ (x \in exists') = FALSE
        BY <1>2, <1>7, <3>4
      <4>4. Safe(todo[u], x, TRUE, "none", "none", depth[u][x], switch_depth[u][x])
        BY <3>1, <4>2, <4>3 DEF SafeAt
      <4>5. todo[u] \in Seq(Steps)
        BY <1>4, <2>2
      <4>6. Safe(todo[u], x, FALSE, "none", "none", depth[u][x], switch_depth[u][x])
        BY <4>1, <4>4, <4>5, UnmadeSafe
      <4> QED BY <3>2, <4>2, <4>3, <4>6 DEF SafeAt
    <3> QED BY <3>3, <3>4
  <2> QED BY <2>1, <2>2
<1>9. (Posets \ exists \subseteq Tables)'
  BY <1>2, <1>7 DEF Gone
<1>10. \A u \in Threads, z \in Posets : Comes(todo'[u], "terminate", z) => z \in Tables
  BY <1>5 DEF Gone
<1>11. \A u, v \in Threads, x \in Tables, o \in Turning : Comes(todo'[u], o, x) /\ Comes(todo'[v], o, x) => u = v
  BY <1>5 DEF Gone
<1> QED BY <1>8, <1>9, <1>10, <1>11 DEF Gone

\* Every step of a call.
LEMMA StepsStay ==
  ASSUME IInv, Gone, NoTableIsNeeded, NEW t \in Threads, Step(t)
  PROVE  Gone'
<1>1. PICK x \in Posets :
        \/ Read(t, x) \/ GiveUpRead(t, x) \/ Write(t, x) \/ Release(t, x) \/ Regain(t, x)
        \/ EditMode(t, x) \/ Insert(t, x) \/ Terminate(t, x)
  BY DEF Step
<1> QED BY <1>1, ReadStays, GiveUpStays, WriteStays, ReleaseStays, RegainStays, EditModeStays,
           InsertStays, TerminateStays

(***************************************************************************)
(* The calls, as they begin.                                               *)
(***************************************************************************)
\* Steps that neither make nor unmake anything.
Plain == Ops \ Turning

\* What comes in a concatenation.
LEMMA ComesConcat ==
  ASSUME NEW s \in Seq(Steps), NEW t \in Seq(Steps), NEW op, NEW x, Comes(s, op, x) \/ Comes(t, op, x)
  PROVE  Comes(s \o t, op, x)
<1>1. /\ s \o t \in Seq(Steps) /\ Len(s) \in Nat /\ Len(t) \in Nat /\ Len(s \o t) = Len(s) + Len(t)
      /\ \A i \in 1..Len(s \o t) : (s \o t)[i] = IF i <= Len(s) THEN s[i] ELSE t[i - Len(s)]
  BY ConcatPlaces
<1>2. PICK u : u = s \o t
  OBVIOUS
<1>3. CASE Comes(s, op, x)
  <2>1. PICK i \in 1..Len(s) : s[i] = <<op, x>>
    BY <1>3 DEF Comes
  <2>2. i \in 1..Len(u) /\ u[i] = s[i]
    BY <1>1, <1>2
  <2> QED BY <1>2, <2>1, <2>2 DEF Comes
<1>4. CASE Comes(t, op, x)
  <2>1. PICK i \in 1..Len(t) : t[i] = <<op, x>>
    BY <1>4 DEF Comes
  <2>2. PICK j : j = i + Len(s)
    OBVIOUS
  <2>3. j \in 1..Len(u) /\ ~(j <= Len(s)) /\ j - Len(s) = i
    BY <1>1, <1>2, <2>2
  <2>4. u[j] = t[i]
    BY <1>1, <1>2, <2>3
  <2> QED BY <1>2, <2>1, <2>3, <2>4 DEF Comes
<1> QED BY <1>3, <1>4

\* What the parts of the calls do at x, whatever is in the chain of y; nothing, if x is not.
LEMMA PartsDo ==
  ASSUME NEW x \in Posets, NEW y \in Posets, NEW K, x \notin Chain(y) \/ K = Plain
  PROVE  /\ get_read_access[y] \in Seq(Steps) /\ Does(get_read_access[y], x, K)
         /\ get_read_write_access(y) \in Seq(Steps) /\ Does(get_read_write_access(y), x, K)
         /\ release_access_once[y] \in Seq(Steps) /\ Does(release_access_once[y], x, K)
         /\ \A auto \in BOOLEAN :
              /\ begin_jim_edit_mode(y, auto) \in Seq(Steps) /\ Does(begin_jim_edit_mode(y, auto), x, K)
              /\ end_jim_edit_mode(y, auto) \in Seq(Steps) /\ Does(end_jim_edit_mode(y, auto), x, K)
<1>1. x # y \/ K = Plain
  BY ChainIs
<1>2. y \in Nodes
  BY DEF Nodes
<1>3. get_read_access[y] \in Seq(Steps) /\ Does(get_read_access[y], x, K)
  <2>1. CASE x \notin Chain(y)
    <3>1. Does(get_read_access[y], x, {})
      BY <1>2, <2>1, GetDoes
    <3> QED BY <1>2, <3>1, GetDoes, DoesMore
  <2>2. CASE K = Plain
    <3>1. Does(get_read_access[y], x, {"read"}) /\ {"read"} \subseteq K
      BY <1>2, <2>2, GetDoes DEF Plain, Ops, Turning
    <3> QED BY <1>2, <3>1, GetDoes, DoesMore
  <2> QED BY <2>1, <2>2
<1>4. release_access_once[y] \in Seq(Steps) /\ Does(release_access_once[y], x, K)
  <2>1. CASE x \notin Chain(y)
    <3>1. Does(release_access_once[y], x, {})
      BY <1>2, <2>1, ReleaseDoes
    <3> QED BY <1>2, <3>1, ReleaseDoes, DoesMore
  <2>2. CASE K = Plain
    <3>1. Does(release_access_once[y], x, {"release"}) /\ {"release"} \subseteq K
      BY <1>2, <2>2, ReleaseDoes DEF Plain, Ops, Turning
    <3> QED BY <1>2, <3>1, ReleaseDoes, DoesMore
  <2> QED BY <2>1, <2>2
<1>5. /\ <<<<"write", y>>>> \in Seq(Steps) /\ Does(<<<<"write", y>>>>, x, K)
      /\ <<<<"request_edit", y>>>> \in Seq(Steps) /\ Does(<<<<"request_edit", y>>>>, x, K)
      /\ <<<<"release_edit", y>>>> \in Seq(Steps) /\ Does(<<<<"release_edit", y>>>>, x, K)
  <2>1. /\ "write" \in Ops /\ "request_edit" \in Ops /\ "release_edit" \in Ops
        /\ y = x => "write" \in K /\ "request_edit" \in K /\ "release_edit" \in K
    BY <1>1 DEF Plain, Ops, Turning
  <2> QED BY <2>1, DoesOne
<1>6. get_read_write_access(y) \in Seq(Steps) /\ Does(get_read_write_access(y), x, K)
  <2>1. PICK u \in Seq(Steps) :
           /\ get_read_access[y] = <<<<"read", y>>>> \o u /\ get_read_write_access(y) = <<<<"write", y>>>> \o u
           /\ \A z \in Posets : z = y \/ z \notin Chain(y) => Does(u, z, {})
    BY RequestsBegin
  <2>2. PICK f : f = <<<<"read", y>>>>
    OBVIOUS
  <2>3. /\ f \in Seq(Steps) /\ f # << >> /\ Len(f) = 1 /\ f \o u \in Seq(Steps) /\ f \o u # << >>
    <3>1. f \in Seq(Steps) /\ Len(f) = 1
      BY <2>2, OneStep DEF Ops
    <3>2. f \o u \in Seq(Steps) /\ Len(f \o u) = Len(f) + Len(u) /\ Len(u) \in Nat
      BY <3>1, ConcatPlaces
    <3> QED BY <3>1, <3>2
  <2>4. Tail(f \o u) = u
    BY <2>3, TailConcat
  <2>5. Does(u, x, K)
    <3>1. PICK g : g = f \o u
      OBVIOUS
    <3>2. g \in Seq(Steps) /\ g # << >> /\ Tail(g) = u /\ Does(g, x, K)
      BY <1>3, <2>1, <2>2, <2>3, <2>4, <3>1
    <3> QED BY <3>2, TailComes
  <2>6. PICK w : w = <<<<"write", y>>>>
    OBVIOUS
  <2>7. w \in Seq(Steps) /\ Does(w, x, K)
    BY <1>5, <2>6
  <2>8. w \o u \in Seq(Steps) /\ Does(w \o u, x, K)
    BY ONLY <2>5, <2>7, u \in Seq(Steps), DoesConcat
  <2> QED BY <2>1, <2>6, <2>8
<1>7. << >> \in Seq(Steps) /\ Does(<< >>, x, K)
  BY DEF Does
<1>8. ASSUME NEW auto \in BOOLEAN
      PROVE  begin_jim_edit_mode(y, auto) \in Seq(Steps) /\ Does(begin_jim_edit_mode(y, auto), x, K)
  <2>1. PICK p : p = IF auto THEN get_read_write_access(y) ELSE << >>
    OBVIOUS
  <2>2. p \in Seq(Steps) /\ Does(p, x, K)
    BY <1>6, <1>7, <2>1
  <2>3. p \o <<<<"request_edit", y>>>> \in Seq(Steps) /\ Does(p \o <<<<"request_edit", y>>>>, x, K)
    BY <1>5, <2>2, DoesConcat
  <2> QED BY <2>1, <2>3 DEF begin_jim_edit_mode
<1>9. ASSUME NEW auto \in BOOLEAN
      PROVE  end_jim_edit_mode(y, auto) \in Seq(Steps) /\ Does(end_jim_edit_mode(y, auto), x, K)
  <2>1. PICK p : p = IF auto THEN release_access_once[y] ELSE << >>
    OBVIOUS
  <2>2. p \in Seq(Steps) /\ Does(p, x, K)
    BY <1>4, <1>7, <2>1
  <2>3. <<<<"release_edit", y>>>> \o p \in Seq(Steps) /\ Does(<<<<"release_edit", y>>>> \o p, x, K)
    BY <1>5, <2>2, DoesConcat
  <2> QED BY <2>1, <2>3 DEF end_jim_edit_mode
<1> QED BY <1>3, <1>4, <1>6, <1>8, <1>9

\* A thread between calls has nothing of a table that is gone.
LEMMA IdleSafe ==
  ASSUME IInv, Gone, NEW t \in Threads, Idle(t), NEW x \in Tables
  PROVE  x \in exists \/ mode[t][x] = "none"
<1>1. SUFFICES ASSUME x \notin exists PROVE mode[t][x] = "none"
  OBVIOUS
<1>2. SafeAt(t, x) /\ (x \in exists) = FALSE
  BY <1>1 DEF Gone
<1>3. GoneSafe(todo[t], x, mode[t][x])
  BY <1>2 DEF SafeAt, Safe
<1>4. ~Comes(todo[t], "insert", x)
  BY DEF Idle, Comes
<1> QED BY <1>3, <1>4 DEF GoneSafe

\* A call begins that is safe and makes and unmakes at most what nobody else does.
LEMMA CallStays ==
  ASSUME IInv, Gone, NEW t \in Threads, UNCHANGED <<locks, exists>>,
         NEW s \in Seq(Steps), todo' = [todo EXCEPT ![t] = s],
         \A x \in Tables :
           Safe(s, x, x \in exists, mode[t][x], mode[t][Namespace], depth[t][x], switch_depth[t][x]),
         \A z \in Posets : \/ Does(s, z, Plain)
                           \/ z \in Tables /\ (\A op \in Turning : Comes(s, op, z) =>
                                              \A u \in Threads : ~Comes(todo[u], op, z))
  PROVE  Gone'
<1>1. mode' = mode /\ depth' = depth /\ switch_depth' = switch_depth /\ exists' = exists
  BY DEF locks
<1>2. ASSUME NEW op \in Turning, NEW z \in Posets, Comes(s, op, z)
      PROVE  z \in Tables /\ \A u \in Threads : ~Comes(todo[u], op, z)
  <2>1. ~Does(s, z, Plain)
    BY <1>2, DoesNot DEF Plain
  <2> QED BY <1>2, <2>1
<1> QED BY <1>1, <1>2, OthersStay

\* A call, or a part of one, that may make or unmake v and does nothing to other tables.
Away(s, v) ==
  /\ s \in Seq(Steps)
  /\ \A x \in Tables : x # v => Does(s, x, {})
  /\ \A z \in Posets : z # v => Does(s, z, Plain)

\* One part after another.
LEMMA AwayConcat ==
  ASSUME NEW v, NEW s, NEW t, Away(s, v), Away(t, v)
  PROVE  Away(s \o t, v)
<1>1. s \in Seq(Steps) /\ t \in Seq(Steps)
  BY DEF Away
<1>2. s \o t \in Seq(Steps)
  BY <1>1, ConcatPlaces
<1>3. ASSUME NEW x \in Tables, x # v PROVE Does(s \o t, x, {})
  <2>1. Does(s, x, {}) /\ Does(t, x, {})
    BY <1>3 DEF Away
  <2> QED BY <1>1, <2>1, DoesConcat
<1>4. ASSUME NEW z \in Posets, z # v PROVE Does(s \o t, z, Plain)
  <2>1. Does(s, z, Plain) /\ Does(t, z, Plain)
    BY <1>4 DEF Away
  <2> QED BY <1>1, <2>1, DoesConcat
<1> QED BY <1>2, <1>3, <1>4 DEF Away

\* A part over and over.
LEMMA AwayTimes ==
  ASSUME NEW v, NEW s, Away(s, v), NEW n \in Nat
  PROVE  Away(Times(n, s), v)
<1>1. s \in Seq(Steps)
  BY DEF Away
<1>2. ASSUME NEW x \in Tables, x # v PROVE Does(Times(n, s), x, {})
  <2>1. Does(s, x, {})
    BY <1>2 DEF Away
  <2> QED BY <1>1, <2>1, DoesTimes
<1>3. ASSUME NEW z \in Posets, z # v PROVE Does(Times(n, s), z, Plain)
  <2>1. Does(s, z, Plain)
    BY <1>3 DEF Away
  <2> QED BY <1>1, <2>1, DoesTimes
<1>4. Times(n, s) \in Seq(Steps)
  <2>1. \A x : Does(s, x, {z[1] : z \in Steps})
    BY <1>1 DEF Does
  <2> QED BY <1>1, <2>1, DoesTimes
<1> QED BY <1>2, <1>3, <1>4 DEF Away

\* A step on v, and none at all.
LEMMA AwayOne ==
  ASSUME NEW v \in Posets, NEW op \in Ops
  PROVE  Away(<<<<op, v>>>>, v) /\ Away(<< >>, v)
<1>1. ASSUME NEW z \in Posets, z # v, NEW K PROVE Does(<<<<op, v>>>>, z, K)
  BY <1>1, DoesOne
<1>2. <<<<op, v>>>> \in Seq(Steps)
  BY DoesOne
<1>3. ASSUME NEW x, NEW K PROVE Does(<< >>, x, K)
  BY DEF Does
<1>4. Tables \subseteq Posets
  BY PosetsAssumption
<1>5. Away(<<<<op, v>>>>, v)
  BY <1>1, <1>2, <1>4 DEF Away
<1>6. Away(<< >>, v)
  BY <1>3 DEF Away
<1> QED BY <1>5, <1>6

\* The parts of the calls, for v and for posets that are no tables.
LEMMA AwayParts ==
  ASSUME NoTableIsNeeded, NEW v, NEW w \in Posets, w = v \/ w \notin Tables
  PROVE  /\ Away(get_read_access[w], v) /\ Away(get_read_write_access(w), v)
         /\ Away(release_access_once[w], v)
         /\ \A auto \in BOOLEAN : Away(begin_jim_edit_mode(w, auto), v) /\ Away(end_jim_edit_mode(w, auto), v)
<1>1. ASSUME NEW x \in Tables, x # v PROVE x \in Posets /\ x \notin Chain(w)
  BY <1>1, TablesAway
<1>2. ASSUME NEW x \in Tables, x # v
      PROVE  /\ Does(get_read_access[w], x, {}) /\ Does(get_read_write_access(w), x, {})
             /\ Does(release_access_once[w], x, {})
             /\ \A auto \in BOOLEAN :
                  Does(begin_jim_edit_mode(w, auto), x, {}) /\ Does(end_jim_edit_mode(w, auto), x, {})
  <2>1. x \in Posets /\ x \notin Chain(w)
    BY <1>1, <1>2
  <2> QED BY <2>1, PartsDo
<1>3. ASSUME NEW z \in Posets
      PROVE  /\ get_read_access[w] \in Seq(Steps) /\ Does(get_read_access[w], z, Plain)
             /\ get_read_write_access(w) \in Seq(Steps) /\ Does(get_read_write_access(w), z, Plain)
             /\ release_access_once[w] \in Seq(Steps) /\ Does(release_access_once[w], z, Plain)
             /\ \A auto \in BOOLEAN :
                  /\ begin_jim_edit_mode(w, auto) \in Seq(Steps) /\ Does(begin_jim_edit_mode(w, auto), z, Plain)
                  /\ end_jim_edit_mode(w, auto) \in Seq(Steps) /\ Does(end_jim_edit_mode(w, auto), z, Plain)
  BY PartsDo
<1>4. Away(get_read_access[w], v)
  BY <1>2, <1>3 DEF Away
<1>5. Away(get_read_write_access(w), v)
  BY <1>2, <1>3 DEF Away
<1>6. Away(release_access_once[w], v)
  BY <1>2, <1>3 DEF Away
<1>7. ASSUME NEW auto \in BOOLEAN
      PROVE  Away(begin_jim_edit_mode(w, auto), v) /\ Away(end_jim_edit_mode(w, auto), v)
  <2>1. Away(begin_jim_edit_mode(w, auto), v)
    BY <1>2, <1>3 DEF Away
  <2>2. Away(end_jim_edit_mode(w, auto), v)
    BY <1>2, <1>3 DEF Away
  <2> QED BY <2>1, <2>2
<1> QED BY <1>4, <1>5, <1>6, <1>7

\* The parts that are about the schema of w.
LEMMA AwaySchema ==
  ASSUME NoTableIsNeeded, NEW v \in Posets, NEW w \in Posets
  PROVE  Away(get_read_access[SchemaOf[w]], v) /\ Away(release_access_once[SchemaOf[w]], v)
<1>1. SchemaOf[w] \in Nodes /\ SchemaOf[w] \in Needs(w)
  BY ConstantsAre
<1>2. CASE SchemaOf[w] = NoPoset
  BY <1>2, AwayOne, get_read_accessIs, release_access_onceIs DEF Ops
<1>3. CASE SchemaOf[w] # NoPoset
  <2>1. SchemaOf[w] \in Posets /\ SchemaOf[w] \notin Tables
    BY <1>1, <1>3 DEF NoTableIsNeeded, Nodes
  <2> QED BY <2>1, AwayParts
<1> QED BY <1>2, <1>3

\* A call about v begins.
LEMMA CallAtStays ==
  ASSUME IInv, Gone, NEW t \in Threads, Idle(t), UNCHANGED <<locks, exists>>,
         NEW s, todo' = [todo EXCEPT ![t] = s], NEW v, Away(s, v),
         v \in Tables =>
           Safe(s, v, v \in exists, mode[t][v], mode[t][Namespace], depth[t][v], switch_depth[t][v]),
         v \in Posets => \/ Does(s, v, Plain)
                         \/ v \in Tables /\ (\A op \in Turning : Comes(s, op, v) =>
                                              \A u \in Threads : ~Comes(todo[u], op, v))
  PROVE  Gone'
<1>1. ASSUME NEW x \in Tables
      PROVE  Safe(s, x, x \in exists, mode[t][x], mode[t][Namespace], depth[t][x], switch_depth[t][x])
  <2>1. CASE x = v
    BY <2>1
  <2>2. CASE x # v
    <3>1. PICK here, m : here = (x \in exists) /\ m = mode[t][x]
      OBVIOUS
    <3>2. x \in exists \/ mode[t][x] = "none"
      BY IdleSafe
    <3>3. here \in BOOLEAN
      BY <3>1
    <3>4. here \/ m = "none"
      BY <3>1, <3>2, Zenon
    <3>5. Does(s, x, {})
      BY <2>2 DEF Away
    <3>6. \A n, d, w : Safe(s, x, here, m, n, d, w)
      BY <3>3, <3>4, <3>5, AwaySafe
    <3> QED BY <3>1, <3>6
  <2> QED BY <2>1, <2>2
<1>2. s \in Seq(Steps)
  BY DEF Away
<1>3. ASSUME NEW z \in Posets
      PROVE  \/ Does(s, z, Plain)
             \/ z \in Tables /\ (\A op \in Turning : Comes(s, op, z) => \A u \in Threads : ~Comes(todo[u], op, z))
  BY DEF Away
<1> QED BY <1>1, <1>2, <1>3, CallStays

\* A query is about no table.
LEMMA QueryStays ==
  ASSUME IInv, Gone, NoTableIsNeeded, NEW t \in Threads, Query(t)
  PROVE  Gone'
<1>1. /\ Idle(t) /\ todo' = [todo EXCEPT ![t] = name] /\ UNCHANGED <<locks, exists>>
  BY DEF Query, Begin
<1>2. Namespace \in Posets /\ Namespace \notin Tables /\ NoPoset \notin Posets /\ NoPoset \notin Tables
  BY ConstantsAre, ChainIs, BaseAssumption, PosetsAssumption
<1>3. Away(get_read_access[Namespace], NoPoset) /\ Away(release_access_once[Namespace], NoPoset)
  BY <1>2, AwayParts
<1>4. Away(name, NoPoset)
  BY <1>3, AwayConcat DEF name
<1> QED BY <1>1, <1>2, <1>4, CallAtStays

\* Nor is the definition of a schema member.
LEMMA DefineStays ==
  ASSUME IInv, Gone, NoTableIsNeeded, NEW t \in Threads, NEW y \in Posets, Define(t, y)
  PROVE  Gone'
<1>1. Idle(t) /\ todo' = [todo EXCEPT ![t] = new_jim_state(y)] /\ UNCHANGED <<locks, exists>> /\ y \notin Tables
  BY DEF Define, Begin
<1>2. Namespace \in Posets /\ Namespace \notin Tables /\ NoPoset \notin Posets /\ NoPoset \notin Tables
  BY ConstantsAre, ChainIs, BaseAssumption, PosetsAssumption
<1>3. Away(get_read_access[Namespace], NoPoset) /\ Away(release_access_once[Namespace], NoPoset)
  BY <1>2, AwayParts
<1>4. /\ Away(get_read_write_access(y), NoPoset) /\ Away(release_access_once[y], NoPoset)
      /\ Away(begin_jim_edit_mode(y, TRUE), NoPoset) /\ Away(end_jim_edit_mode(y, TRUE), NoPoset)
  BY <1>1, AwayParts
<1>5. Away(get_read_access[Namespace] \o get_read_write_access(y), NoPoset)
  BY <1>3, <1>4, AwayConcat
<1>6. Away((get_read_access[Namespace] \o get_read_write_access(y)) \o begin_jim_edit_mode(y, TRUE), NoPoset)
  BY <1>4, <1>5, AwayConcat
<1>7. Away(((get_read_access[Namespace] \o get_read_write_access(y)) \o begin_jim_edit_mode(y, TRUE))
           \o end_jim_edit_mode(y, TRUE), NoPoset)
  BY <1>4, <1>6, AwayConcat
<1>8. Away((((get_read_access[Namespace] \o get_read_write_access(y)) \o begin_jim_edit_mode(y, TRUE))
           \o end_jim_edit_mode(y, TRUE)) \o release_access_once[y], NoPoset)
  BY <1>4, <1>7, AwayConcat
<1>9. Away(new_jim_state(y), NoPoset)
  BY <1>3, <1>8, AwayConcat DEF new_jim_state
<1> QED BY <1>1, <1>2, <1>9, CallAtStays

\* What a request for x leaves safe, if x is there.
LEMMA AskingSafe ==
  ASSUME NEW x \in Posets, NEW m, NEW n, NEW d, NEW w
  PROVE  /\ m # "none" \/ n # "none" => Safe(get_read_access[x], x, TRUE, m, n, d, w)
         /\ m = "write" \/ n # "none" => /\ Safe(get_read_write_access(x), x, TRUE, m, n, d, w)
                                         /\ Safe(begin_jim_edit_mode(x, TRUE), x, TRUE, m, n, d, w)
         /\ Safe(begin_jim_edit_mode(x, FALSE), x, TRUE, m, n, d, w)
<1>1. PICK u \in Seq(Steps) :
         /\ get_read_access[x] = <<<<"read", x>>>> \o u /\ get_read_write_access(x) = <<<<"write", x>>>> \o u
         /\ \A z \in Posets : z = x \/ z \notin Chain(x) => Does(u, z, {})
  BY RequestsBegin
<1>2. PICK f, g, q : f = <<<<"read", x>>>> /\ g = <<<<"write", x>>>> /\ q = <<<<"request_edit", x>>>>
  OBVIOUS
<1>3. /\ f \in Seq(Steps) /\ Len(f) = 1 /\ f[1] = <<"read", x>>
      /\ g \in Seq(Steps) /\ Len(g) = 1 /\ g[1] = <<"write", x>>
      /\ q \in Seq(Steps) /\ Len(q) = 1 /\ q[1] = <<"request_edit", x>>
  BY <1>2, OneStep DEF Ops
<1>4. Does(u, x, {}) /\ Does(q, x, {"request_edit"}) /\ << >> \in Seq(Steps) /\ Does(<< >>, x, {"request_edit"})
  <2>1. Does(q, x, {"request_edit"})
    BY <1>2, DoesOne DEF Ops
  <2> QED BY <1>1, <2>1 DEF Does
<1>5. Does(u, x, {"request_edit"})
  BY <1>4, DoesMore
<1>6. u \o q \in Seq(Steps) /\ Does(u \o q, x, {"request_edit"})
  BY <1>3, <1>4, <1>5, DoesConcat
<1>7. ASSUME m # "none" \/ n # "none" PROVE Safe(get_read_access[x], x, TRUE, m, n, d, w)
  <2>1. get_read_access[x] \in Seq(Steps) /\ get_read_access[x] = f \o u
    BY <1>1, <1>2, <1>3, ConcatPlaces
  <2> QED BY ONLY <1>3, <1>5, <1>7, <2>1, u \in Seq(Steps), RequestSafe
<1>8. ASSUME m = "write" \/ n # "none"
      PROVE  /\ Safe(get_read_write_access(x), x, TRUE, m, n, d, w)
             /\ Safe(begin_jim_edit_mode(x, TRUE), x, TRUE, m, n, d, w)
  <2>1. get_read_write_access(x) \in Seq(Steps) /\ get_read_write_access(x) = g \o u
    BY <1>1, <1>2, <1>3, ConcatPlaces
  <2>2. Safe(get_read_write_access(x), x, TRUE, m, n, d, w)
    BY ONLY <1>3, <1>5, <1>8, <2>1, u \in Seq(Steps), RequestSafe
  <2>3. begin_jim_edit_mode(x, TRUE) \in Seq(Steps) /\ begin_jim_edit_mode(x, TRUE) = g \o (u \o q)
    <3>1. begin_jim_edit_mode(x, TRUE) = (g \o u) \o q
      BY <1>2, <2>1, begin_jim_edit_modeIs
    <3>2. (g \o u) \o q = g \o (u \o q)
      <4>1. g \in Seq(Steps) /\ u \in Seq(Steps) /\ q \in Seq(Steps)
        BY <1>3
      <4> QED BY ONLY <4>1, ConcatAssociative
    <3> QED BY <3>1, <3>2, begin_jim_edit_modeIs
  <2>4. Safe(begin_jim_edit_mode(x, TRUE), x, TRUE, m, n, d, w)
    BY ONLY <1>3, <1>6, <1>8, <2>3, RequestSafe
  <2> QED BY <2>2, <2>4
<1>9. Safe(begin_jim_edit_mode(x, FALSE), x, TRUE, m, n, d, w)
  <2>1. begin_jim_edit_mode(x, FALSE) \in Seq(Steps) /\ begin_jim_edit_mode(x, FALSE) = q \o << >>
    <3>1. q \o << >> = q
      BY <1>3, ConcatEmptySeq
    <3> QED BY <1>2, <3>1, begin_jim_edit_modeIs
  <2> QED BY ONLY <1>3, <1>4, <2>1, RequestSafe
<1> QED BY <1>7, <1>8, <1>9

\* What a release of x leaves safe: all levels, one of them, an edit mode with and without.
LEMMA ReleasingSafe ==
  ASSUME NEW x \in Posets, x # Namespace, Namespace \notin Chain(x), NEW m, NEW n, NEW d, NEW w
  PROVE  /\ w = 0 \/ n # "none" \/ d # w + 1 =>
              /\ Safe(release_access_once[x], x, TRUE, m, n, d, w)
              /\ Safe(end_jim_edit_mode(x, TRUE), x, TRUE, m, n, d, w)
         /\ w = 0 \/ n # "none" => \A k \in Nat : Safe(Times(k, release_access_once[x]), x, TRUE, m, n, d, w)
         /\ Safe(end_jim_edit_mode(x, FALSE), x, TRUE, m, n, d, w)
<1> DEFINE K == {"release", "release_edit"}
<1>1. PICK u \in Seq(Steps) : release_access_once[x] = u \o <<<<"release", x>>>> /\ Does(u, x, {})
  BY ReleasesEnd
<1>2. PICK f, e : f = <<<<"release", x>>>> /\ e = <<<<"release_edit", x>>>>
  OBVIOUS
<1>3. /\ f \in Seq(Steps) /\ Len(f) = 1 /\ e \in Seq(Steps)
      /\ Does(f, x, K) /\ Does(e, x, {"release_edit"}) /\ Does(e, Namespace, {})
  <2>1. Namespace \in Posets /\ "release" \in Ops /\ "release_edit" \in Ops
    BY ConstantsAre DEF Ops
  <2> QED BY <1>2, <2>1, DoesOne, OneStep
<1>4. /\ release_access_once[x] \in Seq(Steps) /\ Does(release_access_once[x], x, K)
      /\ Does(release_access_once[x], Namespace, {})
  <2>1. x \in Nodes /\ Namespace \in Posets
    BY ConstantsAre DEF Nodes
  <2>2. Does(release_access_once[x], x, {"release"})
    BY <2>1, ReleaseDoes
  <2> QED BY <2>1, <2>2, ReleaseDoes, DoesMore
<1>5. Does(e, x, K) /\ Does(u, x, {"release_edit"})
  <2>1. {"release_edit"} \subseteq K
    OBVIOUS
  <2> QED BY <1>1, <1>3, <2>1, DoesMore
<1>6. ASSUME NEW a \in Seq(Steps), Does(a, x, {"release_edit"}), NEW s, s = a \o f
      PROVE  \A i \in 1..Len(s) : s[i] = <<"release", x>> => i = Len(s)
  <2>1. /\ Len(a) \in Nat /\ Len(s) = Len(a) + Len(f)
        /\ \A i \in 1..Len(s) : s[i] = IF i <= Len(a) THEN a[i] ELSE f[i - Len(a)]
    BY ONLY <1>3, <1>6, ConcatPlaces
  <2>2. ASSUME NEW i \in 1..Len(s), s[i] = <<"release", x>> PROVE i = Len(s)
    <3>1. ASSUME i <= Len(a) PROVE FALSE
      <4>1. i \in 1..Len(a) /\ a[i] = <<"release", x>>
        BY <2>1, <2>2, <3>1
      <4> QED BY <1>6, <4>1 DEF Does
    <3> QED BY <1>3, <2>1, <3>1
  <2> QED BY <2>2
<1>7. ASSUME w = 0 \/ n # "none" \/ d # w + 1
      PROVE  /\ Safe(release_access_once[x], x, TRUE, m, n, d, w)
             /\ Safe(end_jim_edit_mode(x, TRUE), x, TRUE, m, n, d, w)
  <2>1. Safe(release_access_once[x], x, TRUE, m, n, d, w)
    <3>1. PICK s : s = release_access_once[x]
      OBVIOUS
    <3>2. \A i \in 1..Len(s) : s[i] = <<"release", x>> => i = Len(s)
      BY <1>1, <1>2, <1>5, <1>6, <3>1
    <3>3. Does(s, x, {"release", "release_edit"}) /\ Does(s, Namespace, {})
      BY <1>4, <3>1
    <3>4. \/ w = 0 \/ n # "none" \/ ~Comes(s, "release", x)
          \/ d # w + 1 /\ \A i \in 1..Len(s) : s[i] = <<"release", x>> => i = Len(s)
      BY <1>7, <3>2, Zenon
    <3>5. Safe(s, x, TRUE, m, n, d, w)
      BY ONLY <3>3, <3>4, FinishSafe
    <3> QED BY <3>1, <3>5
  <2>2. Safe(end_jim_edit_mode(x, TRUE), x, TRUE, m, n, d, w)
    <3>1. PICK a : a = e \o u
      OBVIOUS
    <3>2. a \in Seq(Steps) /\ Does(a, x, {"release_edit"})
      BY <1>3, <1>5, <3>1, DoesConcat
    <3>3. PICK s : s = a \o f
      OBVIOUS
    <3>4. \A i \in 1..Len(s) : s[i] = <<"release", x>> => i = Len(s)
      BY <1>6, <3>2, <3>3
    <3>5. end_jim_edit_mode(x, TRUE) = s
      <4>1. end_jim_edit_mode(x, TRUE) = e \o (u \o f)
        BY <1>1, <1>2, begin_jim_edit_modeIs
      <4>2. (e \o u) \o f = e \o (u \o f)
        <5>1. e \in Seq(Steps) /\ u \in Seq(Steps) /\ f \in Seq(Steps)
          BY <1>3
        <5> QED BY ONLY <5>1, ConcatAssociative
      <4> QED BY <3>1, <3>3, <4>1, <4>2
    <3>6. end_jim_edit_mode(x, TRUE) = e \o release_access_once[x]
      BY <1>2, begin_jim_edit_modeIs
    <3>7. Does(s, x, K) /\ Does(s, Namespace, {})
      <4>1. PICK r : r = release_access_once[x]
        OBVIOUS
      <4>2. /\ r \in Seq(Steps) /\ Does(r, x, K) /\ Does(r, Namespace, {})
            /\ e \in Seq(Steps) /\ Does(e, x, K) /\ Does(e, Namespace, {})
        BY <1>3, <1>4, <1>5, <4>1
      <4>3. Does(e \o r, x, K)
        BY ONLY <4>2, DoesConcat
      <4>4. Does(e \o r, Namespace, {})
        BY ONLY <4>2, DoesConcat
      <4> QED BY <3>5, <3>6, <4>1, <4>3, <4>4
    <3>8. \/ w = 0 \/ n # "none" \/ ~Comes(s, "release", x)
          \/ d # w + 1 /\ \A i \in 1..Len(s) : s[i] = <<"release", x>> => i = Len(s)
      BY <1>7, <3>4, Zenon
    <3>9. Safe(s, x, TRUE, m, n, d, w)
      BY <3>7, <3>8, FinishSafe
    <3> QED BY <3>5, <3>9
  <2> QED BY <2>1, <2>2
<1>8. ASSUME w = 0 \/ n # "none", NEW k \in Nat
      PROVE  Safe(Times(k, release_access_once[x]), x, TRUE, m, n, d, w)
  <2>1. Does(Times(k, release_access_once[x]), x, K) /\ Does(Times(k, release_access_once[x]), Namespace, {})
    BY <1>4, DoesTimes
  <2> QED BY <1>8, <2>1, FinishSafe
<1>9. Safe(end_jim_edit_mode(x, FALSE), x, TRUE, m, n, d, w)
  <2>1. Safe(e, x, TRUE, m, n, d, w)
    <3>1. ~Comes(e, "release", x)
      BY <1>3, DoesNot
    <3> QED BY <1>3, <1>5, <3>1, FinishSafe
  <2> QED BY <1>2, <2>1, begin_jim_edit_modeIs
<1> QED BY <1>7, <1>8, <1>9

\* A client's request.
LEMMA RequestStays ==
  ASSUME IInv, Gone, NoTableIsNeeded, "keeps_pointers" \notin Practices,
         NEW t \in Threads, NEW x \in Posets, Request(t, x)
  PROVE  Gone'
<1>1. Idle(t) /\ UNCHANGED <<locks, exists>> /\ x \in exists
  BY DEF Request, Begin
<1>2. /\ Away(get_read_access[x], x) /\ Away(get_read_write_access(x), x)
      /\ Away(begin_jim_edit_mode(x, TRUE), x) /\ Away(begin_jim_edit_mode(x, FALSE), x)
  BY AwayParts
<1>3. /\ Does(get_read_access[x], x, Plain) /\ Does(get_read_write_access(x), x, Plain)
      /\ Does(begin_jim_edit_mode(x, TRUE), x, Plain) /\ Does(begin_jim_edit_mode(x, FALSE), x, Plain)
  BY PartsDo
<1>4. ASSUME NEW k \in {"read", "write"}, MayAsk(t, x, k), x \in Tables
      PROVE  /\ mode[t][Namespace] # "none" \/ ~Waits(t, x, k)
  BY <1>4, TablesAway DEF MayAsk, Reachable
<1>5. PICK m, n, d, w : m = mode[t][x] /\ n = mode[t][Namespace] /\ d = depth[t][x] /\ w = switch_depth[t][x]
  OBVIOUS
<1>6. (x \in exists) = TRUE
  BY <1>1
<1>7. CASE MayAsk(t, x, "read") /\ Begin(t, get_read_access[x])
  <2>1. x \in Tables => m # "none" \/ n # "none"
    BY <1>4, <1>5, <1>7 DEF Waits
  <2>2. x \in Tables => Safe(get_read_access[x], x, x \in exists, m, n, d, w)
    BY <1>6, <2>1, AskingSafe
  <2>3. todo' = [todo EXCEPT ![t] = get_read_access[x]]
    BY <1>7 DEF Begin
  <2> QED BY <1>1, <1>2, <1>3, <1>5, <2>2, <2>3, CallAtStays
<1>8. CASE MayAsk(t, x, "write") /\ Begin(t, get_read_write_access(x))
  <2>1. x \in Tables => m = "write" \/ n # "none"
    BY <1>4, <1>5, <1>8 DEF Waits
  <2>2. x \in Tables => Safe(get_read_write_access(x), x, x \in exists, m, n, d, w)
    BY <1>6, <2>1, AskingSafe
  <2>3. todo' = [todo EXCEPT ![t] = get_read_write_access(x)]
    BY <1>8 DEF Begin
  <2> QED BY <1>1, <1>2, <1>3, <1>5, <2>2, <2>3, CallAtStays
<1>9. CASE MayAsk(t, x, "write") /\ Begin(t, begin_jim_edit_mode(x, TRUE))
  <2>1. x \in Tables => m = "write" \/ n # "none"
    BY <1>4, <1>5, <1>9 DEF Waits
  <2>2. x \in Tables => Safe(begin_jim_edit_mode(x, TRUE), x, x \in exists, m, n, d, w)
    BY <1>6, <2>1, AskingSafe
  <2>3. todo' = [todo EXCEPT ![t] = begin_jim_edit_mode(x, TRUE)]
    BY <1>9 DEF Begin
  <2> QED BY <1>1, <1>2, <1>3, <1>5, <2>2, <2>3, CallAtStays
<1>10. CASE Begin(t, begin_jim_edit_mode(x, FALSE))
  <2>1. Safe(begin_jim_edit_mode(x, FALSE), x, x \in exists, m, n, d, w)
    BY <1>6, AskingSafe
  <2>2. todo' = [todo EXCEPT ![t] = begin_jim_edit_mode(x, FALSE)]
    BY <1>10 DEF Begin
  <2> QED BY <1>1, <1>2, <1>3, <1>5, <2>1, <2>2, CallAtStays
<1> QED BY <1>7, <1>8, <1>9, <1>10 DEF Request

\* A client's release.
LEMMA FinishStays ==
  ASSUME IInv, Gone, NoTableIsNeeded, "keeps_pointers" \notin Practices,
         NEW t \in Threads, NEW x \in Posets, Finish(t, x)
  PROVE  Gone'
<1>1. Idle(t) /\ UNCHANGED <<locks, exists>> /\ brackets[t][x] # << >>
  BY DEF Finish
<1>2. release_access_once[x] \in Seq(Steps) /\ depth[t][x] \in Nat /\ x \in Nodes
  BY release_access_onceIs DEF Nodes, IInv, TypeOK
<1>3. x \in Tables => x \in exists
  <2>1. mode[t][x] # "none"
    BY <1>1, IdleHas DEF Holds
  <2> QED BY <1>1, <2>1, IdleSafe
<1>4. PICK m, n, d, w : m = mode[t][x] /\ n = mode[t][Namespace] /\ d = depth[t][x] /\ w = switch_depth[t][x]
  OBVIOUS
<1>5. ASSUME x \in Tables
      PROVE  /\ (x \in exists) = TRUE /\ x # Namespace /\ Namespace \notin Chain(x)
             /\ \A all \in BOOLEAN : MayRelease(t, x, all) => w = 0 \/ n # "none" \/ (d # w + 1 /\ ~all)
  <2>1. x # Namespace /\ Namespace \notin Chain(x)
    BY <1>5, TablesAway
  <2>2. (x \in exists) = TRUE
    BY <1>3, <1>5
  <2>3. ASSUME NEW all \in BOOLEAN, MayRelease(t, x, all) PROVE w = 0 \/ n # "none" \/ (d # w + 1 /\ ~all)
    BY <1>4, <2>1, <2>3 DEF MayRelease, Reachable
  <2> QED BY <2>1, <2>2, <2>3
<1>6. /\ Away(release_access_once[x], x) /\ Away(Times(depth[t][x], release_access_once[x]), x)
      /\ Away(end_jim_edit_mode(x, TRUE), x) /\ Away(end_jim_edit_mode(x, FALSE), x)
  BY <1>2, AwayParts, AwayTimes
<1>7. /\ Does(release_access_once[x], x, Plain) /\ Does(Times(depth[t][x], release_access_once[x]), x, Plain)
      /\ Does(end_jim_edit_mode(x, TRUE), x, Plain) /\ Does(end_jim_edit_mode(x, FALSE), x, Plain)
  <2>1. /\ Does(release_access_once[x], x, Plain)
        /\ Does(end_jim_edit_mode(x, TRUE), x, Plain) /\ Does(end_jim_edit_mode(x, FALSE), x, Plain)
    BY PartsDo
  <2> QED BY <1>2, <2>1, DoesTimes
<1>8. CASE MayRelease(t, x, FALSE) /\ todo' = [todo EXCEPT ![t] = release_access_once[x]]
  <2>1. x \in Tables => Safe(release_access_once[x], x, x \in exists, m, n, d, w)
    BY <1>5, <1>8, ReleasingSafe
  <2> QED BY <1>1, <1>4, <1>6, <1>7, <1>8, <2>1, CallAtStays
<1>9. CASE MayRelease(t, x, TRUE) /\ todo' = [todo EXCEPT ![t] = Times(depth[t][x], release_access_once[x])]
  <2>1. x \in Tables => Safe(Times(depth[t][x], release_access_once[x]), x, x \in exists, m, n, d, w)
    BY <1>2, <1>5, <1>9, ReleasingSafe
  <2> QED BY <1>1, <1>4, <1>6, <1>7, <1>9, <2>1, CallAtStays
<1>10. CASE MayRelease(t, x, FALSE) /\ todo' = [todo EXCEPT ![t] = end_jim_edit_mode(x, TRUE)]
  <2>1. x \in Tables => Safe(end_jim_edit_mode(x, TRUE), x, x \in exists, m, n, d, w)
    BY <1>5, <1>10, ReleasingSafe
  <2> QED BY <1>1, <1>4, <1>6, <1>7, <1>10, <2>1, CallAtStays
<1>11. CASE todo' = [todo EXCEPT ![t] = end_jim_edit_mode(x, FALSE)]
  <2>1. x \in Tables => Safe(end_jim_edit_mode(x, FALSE), x, x \in exists, m, n, d, w)
    BY <1>5, ReleasingSafe
  <2> QED BY <1>1, <1>4, <1>6, <1>7, <1>11, <2>1, CallAtStays
<1>12. /\ release_access(t, x, FALSE) = release_access_once[x]
       /\ release_access(t, x, TRUE) = Times(depth[t][x], release_access_once[x])
  BY <1>2, TimesOne DEF release_access
<1> QED BY <1>8, <1>9, <1>10, <1>11, <1>12 DEF Finish

\* What the request to write a poset does there.
LEMMA WriteDoes ==
  ASSUME NEW w \in Posets
  PROVE  /\ Does(get_read_write_access(w), w, {"write"}) /\ Comes(get_read_write_access(w), "write", w)
         /\ Does(begin_jim_edit_mode(w, TRUE), w, {"write", "request_edit"})
         /\ Comes(begin_jim_edit_mode(w, TRUE), "write", w)
<1>1. PICK u \in Seq(Steps) : get_read_write_access(w) = <<<<"write", w>>>> \o u /\ Does(u, w, {})
  BY RequestsBegin
<1>2. PICK g, q : g = <<<<"write", w>>>> /\ q = <<<<"request_edit", w>>>>
  OBVIOUS
<1>3. /\ g \in Seq(Steps) /\ Len(g) = 1 /\ g[1] = <<"write", w>> /\ q \in Seq(Steps)
      /\ Does(g, w, {"write"}) /\ Does(q, w, {"write", "request_edit"})
  <2>1. "write" \in Ops /\ "request_edit" \in Ops
    BY DEF Ops
  <2> QED BY <1>2, <2>1, DoesOne, OneStep
<1>4. Comes(g, "write", w)
  BY <1>3 DEF Comes
<1>5. PICK r : r = g \o u
  OBVIOUS
<1>6. r \in Seq(Steps) /\ Does(r, w, {"write"}) /\ Comes(r, "write", w)
  <2>1. Does(u, w, {"write"})
    BY <1>1, DoesMore
  <2> QED BY <1>3, <1>4, <1>5, <2>1, DoesConcat, ComesConcat
<1>7. Does(r \o q, w, {"write", "request_edit"}) /\ Comes(r \o q, "write", w)
  <2>1. Does(r, w, {"write", "request_edit"})
    BY <1>6, DoesMore
  <2> QED BY <1>3, <1>6, <2>1, DoesConcat, ComesConcat
<1>8. get_read_write_access(w) = r /\ begin_jim_edit_mode(w, TRUE) = r \o q
  BY <1>1, <1>2, <1>5, begin_jim_edit_modeIs
<1> QED BY <1>6, <1>7, <1>8

\* What is about the schema of a table is neither about the table nor about the namespace.
LEMMA SchemaDoes ==
  ASSUME NoTableIsNeeded, NEW x \in Tables, NEW z \in {x, Namespace}
  PROVE  /\ get_read_access[SchemaOf[x]] \in Seq(Steps) /\ Does(get_read_access[SchemaOf[x]], z, {})
         /\ release_access_once[SchemaOf[x]] \in Seq(Steps) /\ Does(release_access_once[SchemaOf[x]], z, {})
<1>1. x \in Posets /\ Namespace \in Posets /\ Namespace \notin Chain(x)
  BY TablesAway, ConstantsAre
<1>2. SchemaOf[x] \in Nodes /\ SchemaOf[x] \in Needs(x)
  BY <1>1, ConstantsAre
<1>3. x \notin Chain(SchemaOf[x]) /\ Namespace \notin Chain(SchemaOf[x])
  BY <1>1, <1>2, OnceInItsChain, ChainIs
<1>4. z \in Posets /\ z \notin Chain(SchemaOf[x])
  BY <1>1, <1>3
<1> QED BY <1>2, <1>4, GetDoes, ReleaseDoes

\* Three parts of a call, in either grouping.
Regroups(s, t, u) == (s \o t) \o u = s \o (t \o u)

LEMMA ThreeRegrouped ==
  ASSUME NEW s \in Seq(Steps), NEW t \in Seq(Steps), NEW u \in Seq(Steps)
  PROVE  Regroups(s, t, u)
<1>1. s \in Seq(Steps) /\ t \in Seq(Steps) /\ u \in Seq(Steps)
  OBVIOUS
<1> QED BY ONLY <1>1, ConcatAssociative DEF Regroups

\* The parts of the creation of a table, around the insertion f.
RegroupsMaking(g, a, f, e, r, z) == (g \o (((a \o f) \o e) \o r)) \o z = ((g \o a) \o f) \o ((e \o r) \o z)

\* The parts of the two calls that make and unmake a table, in either grouping.
LEMMA CallsRegrouped ==
  ASSUME NEW g \in Seq(Steps), NEW a \in Seq(Steps), NEW f \in Seq(Steps), NEW e \in Seq(Steps),
         NEW r \in Seq(Steps), NEW z \in Seq(Steps)
  PROVE  RegroupsMaking(g, a, f, e, r, z) /\ Regroups(g, a, f)
<1>1. PICK c, b : c = a \o f /\ b = e \o r
  OBVIOUS
<1>2. c \in Seq(Steps) /\ b \in Seq(Steps)
  BY <1>1, ConcatPlaces
<1>3. PICK k : k = g \o c
  OBVIOUS
<1>4. k \in Seq(Steps)
  BY <1>2, <1>3, ConcatPlaces
<1>5. Regroups(c, e, r) /\ Regroups(g, c, b) /\ Regroups(k, b, z) /\ Regroups(g, a, f)
  BY <1>2, <1>4, ThreeRegrouped
<1>6. /\ (c \o e) \o r = c \o b /\ k \o b = g \o (c \o b)
      /\ (k \o b) \o z = k \o (b \o z) /\ (g \o a) \o f = k
  BY <1>1, <1>3, <1>5 DEF Regroups
<1>7. (g \o ((c \o e) \o r)) \o z = ((g \o a) \o f) \o (b \o z)
  BY ONLY <1>6
<1> QED BY <1>1, <1>5, <1>7 DEF RegroupsMaking

\* A table is created.
LEMMA CreateStays ==
  ASSUME IInv, Gone, NoTableIsNeeded, NEW t \in Threads, NEW x \in Posets, Create(t, x)
  PROVE  Gone'
<1>1. /\ Idle(t) /\ todo' = [todo EXCEPT ![t] = new_table(x)] /\ UNCHANGED <<locks, exists>>
      /\ x \in Tables /\ x \notin exists /\ \A u \in Threads : ~Ahead(u, "insert", x)
  BY DEF Create, Begin
<1>2. PICK g, p, q, f, e, r, z :
        /\ g = get_read_access[SchemaOf[x]] /\ p = begin_jim_edit_mode(Namespace, TRUE) /\ q = get_read_access[x]
        /\ f = <<<<"insert", x>>>> /\ e = end_jim_edit_mode(Namespace, TRUE)
        /\ r = release_access_once[x] /\ z = release_access_once[SchemaOf[x]]
  OBVIOUS
<1>3. /\ Namespace \in Posets /\ Namespace \notin Tables /\ x \notin Chain(Namespace) /\ "insert" \in Ops
      /\ Namespace \notin Chain(x) /\ x # Namespace
  BY <1>1, TablesAway, ConstantsAre, ChainIs, BaseAssumption DEF Ops
<1>4. f \in Seq(Steps) /\ Len(f) = 1 /\ f[1] = <<"insert", x>>
  BY <1>2, <1>3, OneStep
<1>5. /\ g \in Seq(Steps) /\ p \in Seq(Steps) /\ q \in Seq(Steps) /\ e \in Seq(Steps) /\ r \in Seq(Steps) /\ z \in Seq(Steps)
      /\ Does(g, x, {}) /\ Does(p, x, {}) /\ Does(e, x, {}) /\ Does(z, x, {})
      /\ Does(q, x, {"read"}) /\ Does(r, x, {"release"})
  <2>1. g \in Seq(Steps) /\ Does(g, x, {}) /\ z \in Seq(Steps) /\ Does(z, x, {})
    BY <1>1, <1>2, SchemaDoes
  <2>2. p \in Seq(Steps) /\ Does(p, x, {}) /\ e \in Seq(Steps) /\ Does(e, x, {})
    BY <1>2, <1>3, PartsDo
  <2>3. x \in Nodes
    BY DEF Nodes
  <2>4. q \in Seq(Steps) /\ Does(q, x, {"read"}) /\ r \in Seq(Steps) /\ Does(r, x, {"release"})
    BY <1>2, <2>3, GetDoes, ReleaseDoes
  <2> QED BY <2>1, <2>2, <2>4
<1>6. /\ Does(g, x, {"read"}) /\ Does(p, x, {"read"}) /\ Does(e, x, {"release"}) /\ Does(z, x, {"release"})
  BY <1>5, DoesMore
<1>7. PICK s, a, b : s = new_table(x) /\ a = g \o (p \o q) /\ b = (e \o r) \o z
  OBVIOUS
<1>8. a \in Seq(Steps) /\ Does(a, x, {"read"}) /\ b \in Seq(Steps) /\ Does(b, x, {"release"})
  <2>1. p \o q \in Seq(Steps) /\ Does(p \o q, x, {"read"})
    BY <1>5, <1>6, DoesConcat
  <2>2. e \o r \in Seq(Steps) /\ Does(e \o r, x, {"release"})
    BY <1>5, <1>6, DoesConcat
  <2>3. g \o (p \o q) \in Seq(Steps) /\ Does(g \o (p \o q), x, {"read"})
    BY <1>5, <1>6, <2>1, DoesConcat
  <2>4. (e \o r) \o z \in Seq(Steps) /\ Does((e \o r) \o z, x, {"release"})
    BY <1>5, <1>6, <2>2, DoesConcat
  <2> QED BY <1>7, <2>3, <2>4
<1>9. s = (a \o f) \o b
  <2>1. s = (g \o ((((p \o q) \o f) \o e) \o r)) \o z
    BY <1>2, <1>7 DEF new_table, insert_poset
  <2>2. PICK c : c = p \o q
    OBVIOUS
  <2>3. c \in Seq(Steps)
    BY <1>5, <2>2, ConcatPlaces
  <2>4. (g \o (((c \o f) \o e) \o r)) \o z = ((g \o c) \o f) \o ((e \o r) \o z)
    <3>1. /\ g \in Seq(Steps) /\ c \in Seq(Steps) /\ f \in Seq(Steps)
          /\ e \in Seq(Steps) /\ r \in Seq(Steps) /\ z \in Seq(Steps)
      BY <1>4, <1>5, <2>3
    <3>2. RegroupsMaking(g, c, f, e, r, z)
      BY ONLY <3>1, CallsRegrouped
    <3> QED BY ONLY <3>2 DEF RegroupsMaking
  <2> QED BY <1>7, <2>1, <2>2, <2>4
<1>10. mode[t][x] = "none"
  BY <1>1, IdleSafe
<1>11. Safe(s, x, x \in exists, mode[t][x], mode[t][Namespace], depth[t][x], switch_depth[t][x])
  <2>1. \A n, d, w : Safe(s, x, FALSE, "none", n, d, w)
    BY <1>4, <1>8, <1>9, MakingSafe
  <2>2. (x \in exists) = FALSE
    BY <1>1
  <2> QED BY <1>10, <2>1, <2>2
<1>12. Away(s, x)
  <2>1. Away(g, x) /\ Away(z, x)
    BY <1>2, AwaySchema
  <2>2. Away(p, x) /\ Away(e, x)
    BY <1>2, <1>3, AwayParts
  <2>3. Away(q, x) /\ Away(r, x)
    BY <1>2, AwayParts
  <2>4. Away(f, x)
    BY <1>2, <1>3, AwayOne
  <2>5. Away(p \o q, x) /\ Away(e \o r, x)
    BY <2>2, <2>3, AwayConcat
  <2>6. Away(a, x) /\ Away(b, x)
    BY <1>7, <2>1, <2>5, AwayConcat
  <2>7. Away(a \o f, x)
    BY <2>4, <2>6, AwayConcat
  <2> QED BY <1>9, <2>6, <2>7, AwayConcat
<1>13. ASSUME NEW op \in Turning, NEW u \in Threads PROVE ~Comes(todo[u], op, x)
  <2>1. ~Comes(todo[u], "insert", x)
    BY <1>1, AheadIs
  <2>2. SafeAt(u, x) /\ (x \in exists) = FALSE
    BY <1>1 DEF Gone
  <2>3. ~Comes(todo[u], "terminate", x)
    BY <2>2 DEF SafeAt, Safe, GoneSafe
  <2> QED BY <2>1, <2>3 DEF Turning
<1>14. todo' = [todo EXCEPT ![t] = s]
  BY <1>1, <1>7
<1> QED BY <1>1, <1>11, <1>12, <1>13, <1>14, CallAtStays

\* A table is deleted.
LEMMA DeleteStays ==
  ASSUME IInv, Gone, NoTableIsNeeded, "deletes_twice" \notin Practices,
         NEW t \in Threads, NEW x \in Posets, Delete(t, x)
  PROVE  Gone'
<1>1. /\ Idle(t) /\ todo' = [todo EXCEPT ![t] = delete_poset(t, x)] /\ UNCHANGED <<locks, exists>>
      /\ x \in Tables /\ x \in exists /\ \A u \in Threads : ~Ahead(u, "terminate", x)
  BY DEF Delete, Begin
<1>2. PICK p, q, c, f, e :
        /\ p = begin_jim_edit_mode(Namespace, TRUE) /\ q = get_read_write_access(x)
        /\ c = Times(depth[t][x] + 1, release_access_once[SchemaOf[x]])
        /\ f = <<<<"terminate", x>>>> /\ e = end_jim_edit_mode(Namespace, TRUE)
  OBVIOUS
<1>3. /\ Namespace \in Posets /\ Namespace \notin Tables /\ x \notin Chain(Namespace) /\ "terminate" \in Ops
      /\ Namespace \notin Chain(x) /\ x # Namespace
  BY <1>1, TablesAway, ConstantsAre, ChainIs, BaseAssumption DEF Ops
<1>4. f \in Seq(Steps) /\ Len(f) = 1 /\ f[1] = <<"terminate", x>>
  BY <1>2, <1>3, OneStep
<1>5. depth[t][x] + 1 \in Nat
  BY DEF IInv, TypeOK
<1> DEFINE K == {"write", "request_edit"}
<1>6. /\ p \in Seq(Steps) /\ Does(p, x, K) /\ Does(p, Namespace, K) /\ Comes(p, "write", Namespace)
      /\ e \in Seq(Steps) /\ Does(e, x, {})
  <2>1. p \in Seq(Steps) /\ Does(p, x, {}) /\ e \in Seq(Steps) /\ Does(e, x, {})
    BY <1>2, <1>3, PartsDo
  <2>2. Does(p, x, K)
    BY <2>1, DoesMore
  <2>3. Does(p, Namespace, K) /\ Comes(p, "write", Namespace)
    BY <1>2, <1>3, WriteDoes
  <2> QED BY <2>1, <2>2, <2>3
<1>7. q \in Seq(Steps) /\ Does(q, x, K) /\ Does(q, Namespace, K) /\ Comes(q, "write", x)
  <2>1. q \in Seq(Steps) /\ Does(q, Namespace, {})
    BY <1>2, <1>3, PartsDo
  <2>2. Does(q, x, {"write"}) /\ Comes(q, "write", x)
    BY <1>2, WriteDoes
  <2>3. {"write"} \subseteq K /\ {} \subseteq K
    OBVIOUS
  <2> QED BY <2>1, <2>2, <2>3, DoesMore
<1>8. c \in Seq(Steps) /\ Does(c, x, K) /\ Does(c, Namespace, K)
  <2>1. PICK r : r = release_access_once[SchemaOf[x]]
    OBVIOUS
  <2>2. r \in Seq(Steps) /\ Does(r, x, {}) /\ Does(r, Namespace, {})
    BY <1>1, <2>1, SchemaDoes
  <2>3. Does(r, x, K) /\ Does(r, Namespace, K)
    BY <2>2, DoesMore
  <2> QED BY <1>2, <1>5, <2>1, <2>2, <2>3, DoesTimes
<1>9. PICK k, a, s : k = p \o q /\ a = k \o c /\ s = delete_poset(t, x)
  OBVIOUS
<1>10. /\ k \in Seq(Steps) /\ Does(k, x, K) /\ Does(k, Namespace, K)
       /\ Comes(k, "write", x) /\ Comes(k, "write", Namespace)
  BY <1>6, <1>7, <1>9, DoesConcat, ComesConcat
<1>11. /\ a \in Seq(Steps) /\ Does(a, x, K) /\ Does(a, Namespace, K)
       /\ Comes(a, "write", x) /\ Comes(a, "write", Namespace)
  BY <1>8, <1>9, <1>10, DoesConcat, ComesConcat
<1>12. s = (a \o f) \o e
  <2>1. s = (k \o (c \o f)) \o e
    BY <1>2, <1>9 DEF delete_poset, terminate_access
  <2>2. (k \o (c \o f)) \o e = ((k \o c) \o f) \o e
    <3>1. Regroups(k, c, f)
      BY <1>4, <1>8, <1>10, ThreeRegrouped
    <3> QED BY ONLY <3>1 DEF Regroups
  <2> QED BY <1>9, <2>1, <2>2
<1>13. Safe(s, x, x \in exists, mode[t][x], mode[t][Namespace], depth[t][x], switch_depth[t][x])
  <2>1. \A m, n, d, w : Safe(s, x, TRUE, m, n, d, w)
    BY <1>4, <1>6, <1>11, <1>12, UnmakingSafe
  <2>2. (x \in exists) = TRUE
    BY <1>1
  <2> QED BY <2>1, <2>2
<1>14. Away(s, x)
  <2>1. Away(p, x) /\ Away(e, x)
    BY <1>2, <1>3, AwayParts
  <2>2. Away(q, x)
    BY <1>2, AwayParts
  <2>3. Away(c, x)
    BY <1>2, <1>5, AwaySchema, AwayTimes
  <2>4. Away(f, x)
    BY <1>2, <1>3, AwayOne
  <2>5. Away(k, x)
    BY <1>9, <2>1, <2>2, AwayConcat
  <2>6. Away(a, x)
    BY <1>9, <2>3, <2>5, AwayConcat
  <2>7. Away(a \o f, x)
    BY <2>4, <2>6, AwayConcat
  <2> QED BY <1>12, <2>1, <2>7, AwayConcat
<1>15. ASSUME NEW op \in Turning, NEW u \in Threads PROVE ~Comes(todo[u], op, x)
  <2>1. ~Comes(todo[u], "terminate", x)
    BY <1>1, AheadIs
  <2>2. SafeAt(u, x) /\ (x \in exists) = TRUE
    BY <1>1 DEF Gone
  <2>3. ~Comes(todo[u], "insert", x)
    BY <2>2 DEF SafeAt, Safe
  <2> QED BY <2>1, <2>3 DEF Turning
<1>16. todo' = [todo EXCEPT ![t] = s]
  BY <1>1, <1>9
<1> QED BY <1>1, <1>13, <1>14, <1>15, <1>16, CallAtStays

\* Nobody has anything before anything was asked for.
LEMMA InitGone ==
  ASSUME Init, NoTableIsNeeded
  PROVE  Gone
<1>1. \A t \in Threads : todo[t] = << >>
  BY DEF Init
<1>2. \A t \in Threads, x \in Posets : mode[t][x] = "none"
  BY DEF Init
<1>3. Posets \ exists \subseteq Tables
  BY DEF Init
<1>4. \A x, K : Does(<< >>, x, K)
  BY DEF Does
<1>5. \A op, y : \A t \in Threads : ~Comes(todo[t], op, y)
  BY <1>1 DEF Comes
<1>6. ASSUME NEW t \in Threads, NEW x \in Tables PROVE SafeAt(t, x)
  <2>1. PICK here : here = (x \in exists)
    OBVIOUS
  <2>2. here \in BOOLEAN
    BY <2>1
  <2>3. mode[t][x] = "none"
    BY <1>2, TablesAway
  <2>4. \A n, d, w : Safe(<< >>, x, here, "none", n, d, w)
    BY <1>4, <2>2, AwaySafe
  <2> QED BY <1>1, <2>1, <2>3, <2>4 DEF SafeAt
<1> QED BY <1>3, <1>5, <1>6 DEF Gone

\* Every step leaves everybody safe of the tables that are gone.
LEMMA NextStays ==
  ASSUME IInv, Gone, NoTableIsNeeded, "keeps_pointers" \notin Practices,
         "deletes_twice" \notin Practices, [Next]_vars
  PROVE  Gone'
<1>1. CASE UNCHANGED vars
  BY <1>1 DEF vars, locks, Gone, SafeAt
<1>2. ASSUME NEW t \in Threads, Step(t) PROVE Gone'
  BY <1>2, StepsStay
<1>3. ASSUME NEW t \in Threads, Query(t) PROVE Gone'
  BY <1>3, QueryStays
<1>4. ASSUME NEW t \in Threads, NEW x \in Posets,
             Request(t, x) \/ Create(t, x) \/ Define(t, x) \/ Delete(t, x) \/ Finish(t, x)
      PROVE  Gone'
  BY <1>4, RequestStays, CreateStays, DefineStays, DeleteStays, FinishStays
<1> QED BY <1>1, <1>2, <1>3, <1>4 DEF Next

\* So nobody uses a table that is gone.
LEMMA GoneHolds ==
  ASSUME IInv, Gone, NoTableIsNeeded
  PROVE  NobodyUsesDeleted
<1>1. SUFFICES ASSUME NEW t \in Threads, NEW x \in Posets \ exists
               PROVE  /\ mode[t][x] # "none" => Ahead(t, "insert", x) \/ Ahead(t, "release", x)
                      /\ Ahead(t, "read", x) => Ahead(t, "insert", x)
                      /\ ~Ahead(t, "write", x) /\ ~Ahead(t, "regain", x)
  BY DEF NobodyUsesDeleted
<1>2. x \in Tables /\ (x \in exists) = FALSE
  BY DEF Gone
<1>3. SafeAt(t, x)
  BY <1>2 DEF Gone
<1>4. GoneSafe(todo[t], x, mode[t][x])
  BY <1>2, <1>3 DEF SafeAt, Safe
<1>5. \A op : Ahead(t, op, x) <=> Comes(todo[t], op, x)
  BY AheadIs
<1> QED BY <1>4, <1>5 DEF GoneSafe

\* No thread waits for a table that another thread has deleted, or has access to it: who
\* waits for a table has the namespace, which delete_poset writes before it takes the
\* state and its monitor away (terminate_access, poset_state_handle.cc:1072).  For clients
\* that wait for one poset at a time and with access to the namespace, and do not delete
\* one table at the same time, while no table is a schema.  The code enforces none of this:
\* without the third hypothesis two deletions pass the test at namespace_poset.cc:729, and
\* the second waits for the monitor of the deleted table.
THEOREM PosetAccessNobodyUsesDeleted ==
  ASSUME "anywhere" \notin Practices, "keeps_pointers" \notin Practices,
         "deletes_twice" \notin Practices, NoTableIsNeeded
  PROVE  Spec => []NobodyUsesDeleted
<1>1. Init => IInv /\ Gone
  BY InitHolds, InitGone
<1>2. (IInv /\ Gone) /\ [Next]_vars => (IInv /\ Gone)'
  BY NextKeeps, NextStays
<1>3. IInv /\ Gone => NobodyUsesDeleted
  BY GoneHolds
<1> QED BY <1>1, <1>2, <1>3, PTL DEF Spec
=============================================================================
