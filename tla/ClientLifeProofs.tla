-------------------------- MODULE ClientLifeProofs ---------------------------
(***************************************************************************)
(* What holds of the redirection rules for any number of client processes  *)
(* and any configurations.                                                 *)
(***************************************************************************)
EXTENDS ClientLife, NumberLemmas, FiniteSetTheorems, SequenceTheorems, TLAPS

(***************************************************************************)
(* The chain.                                                              *)
(***************************************************************************)
(* A rule that is inserted stands in front of all others.                   *)
LEMMA ConsChain ==
  ASSUME NEW s \in Seq(Rule), NEW r \in Rule
  PROVE  /\ Cons(r, s) \in Seq(Rule)
         /\ Len(Cons(r, s)) = Len(s) + 1
         /\ DOMAIN Cons(r, s) = 1..(Len(s) + 1)
         /\ Cons(r, s)[1] = r
         /\ \A i \in 1..Len(s) : Cons(r, s)[i + 1] = s[i]
<1>1. <<r>> \in Seq(Rule) /\ Len(<<r>>) = 1 /\ <<r>>[1] = r
  OBVIOUS
<1>2. <<r>> \o s \in Seq(Rule) /\ Len(<<r>> \o s) = 1 + Len(s)
  BY <1>1
<1>3. \A i \in 1..(1 + Len(s)) :
          (<<r>> \o s)[i] = IF i <= 1 THEN <<r>>[i] ELSE s[i - 1]
  BY <1>1, ConcatProperties
<1> QED
  BY <1>1, <1>2, <1>3, LenProperties DEF Cons

(* The first copy of a rule is removed, and the others move up.             *)
LEMMA RemoveChain ==
  ASSUME NEW s \in Seq(Rule), NEW r, \E i \in DOMAIN s : s[i] = r
  PROVE  LET t == RemoveFirst(s, r)
         IN  /\ t \in Seq(Rule) /\ Len(t) = Len(s) - 1 /\ DOMAIN t = 1..(Len(s) - 1)
             /\ \E k \in 1..Len(s) :
                    /\ s[k] = r
                    /\ \A i \in DOMAIN t : t[i] = IF i < k THEN s[i] ELSE s[i + 1]
<1> DEFINE I == {i \in 1..Len(s) : s[i] = r}
           k == Min(I)
<1>1. I \subseteq Nat /\ I # {}
  BY LenProperties
<1>2. \E x \in I : \A y \in I : x <= y
  BY <1>1, LeastExists
<1>3. k \in I
  BY <1>2 DEF Min
<1>4. RemoveFirst(s, r) = SubSeq(s, 1, k - 1) \o SubSeq(s, k + 1, Len(s))
  BY <1>1, LenProperties DEF RemoveFirst, RemoveAt, SelectInSeq
<1> DEFINE a == SubSeq(s, 1, k - 1)
           b == SubSeq(s, k + 1, Len(s))
<1>5. k \in 1..Len(s) /\ s[k] = r /\ Len(s) \in Nat
  BY <1>3
<1> HIDE DEF k, I
<1>6. a \in Seq(Rule) /\ Len(a) = k - 1 /\ \A i \in 1..(k - 1) : a[i] = s[i]
  BY <1>5
<1>7. b \in Seq(Rule) /\ Len(b) = Len(s) - k /\ \A i \in 1..(Len(s) - k) : b[i] = s[k + i]
  BY <1>5
<1> HIDE DEF a, b
<1>8. /\ a \o b \in Seq(Rule) /\ Len(a \o b) = Len(s) - 1
      /\ \A i \in 1..(Len(s) - 1) : (a \o b)[i] = IF i < k THEN s[i] ELSE s[i + 1]
  <2>1. /\ a \o b \in Seq(Rule) /\ Len(a \o b) = Len(a) + Len(b)
        /\ \A i \in 1..(Len(a) + Len(b)) :
              (a \o b)[i] = IF i <= Len(a) THEN a[i] ELSE b[i - Len(a)]
    BY <1>6, <1>7, ConcatProperties
  <2>2. Len(a) + Len(b) = Len(s) - 1
    BY <1>5, <1>6, <1>7
  <2>3. ASSUME NEW i \in 1..(Len(s) - 1) PROVE (a \o b)[i] = IF i < k THEN s[i] ELSE s[i + 1]
    <3>1. CASE i < k
      BY <3>1, <2>1, <2>2, <1>5, <1>6
    <3>2. CASE i >= k
      <4>1. (a \o b)[i] = b[i - (k - 1)]
        BY <3>2, <2>1, <2>2, <1>5, <1>6
      <4>2. i - (k - 1) \in 1..(Len(s) - k)
        BY <3>2, <1>5
      <4>3. b[i - (k - 1)] = s[k + (i - (k - 1))]
        BY <4>2, <1>7
      <4>4. k + (i - (k - 1)) = i + 1
        BY <1>5
      <4> QED
        BY <3>2, <4>1, <4>3, <4>4, <1>5
    <3>3. i < k \/ i >= k
      BY <1>5
    <3> QED
      BY <3>1, <3>2, <3>3
  <2> QED
    BY <2>1, <2>2, <2>3
<1>9. RemoveFirst(s, r) = a \o b
  BY <1>4 DEF a, b
<1> QED
  BY <1>5, <1>8, <1>9, LenProperties

(* Removing what is not there changes nothing.                              *)
LEMMA RemoveNothing ==
  ASSUME NEW s \in Seq(Rule), NEW r, ~ \E i \in DOMAIN s : s[i] = r
  PROVE  RemoveFirst(s, r) = s
  BY LenProperties DEF RemoveFirst

-----------------------------------------------------------------------------
(***************************************************************************)
(* The number of copies.                                                   *)
(***************************************************************************)
Positions(s, q) == {i \in DOMAIN s : s[i] = q}

(* The copies of a rule are finitely many.                                  *)
LEMMA PositionsFinite ==
  ASSUME NEW s \in Seq(Rule), NEW q
  PROVE  IsFiniteSet(Positions(s, q)) /\ Cardinality(Positions(s, q)) \in Nat
<1>1. IsFiniteSet(1..Len(s))
  BY LenProperties, FS_Interval
<1>2. Positions(s, q) \subseteq 1..Len(s)
  BY LenProperties DEF Positions
<1> QED
  BY <1>1, <1>2, FS_Subset, FS_CardinalityType

(* Sets of numbers between which a map is one-to-one and onto are of one    *)
(* size.                                                                    *)
LEMMA SameSize ==
  ASSUME NEW S, NEW T, IsFiniteSet(S), NEW f \in [S -> T],
         \A x, y \in S : f[x] = f[y] => x = y,
         \A z \in T : \E x \in S : f[x] = z
  PROVE  IsFiniteSet(T) /\ Cardinality(T) = Cardinality(S)
<1>1. f \in Bijection(S, T)
  BY DEF Bijection, Injection, Surjection, IsInjective
<1>2. ExistsBijection(S, T)
  BY <1>1 DEF ExistsBijection
<1> QED
  BY <1>2, FS_Bijection

(* An insertion adds a copy of its rule and of no other.                    *)
LEMMA ConsCount ==
  ASSUME NEW s \in Seq(Rule), NEW r \in Rule, NEW q
  PROVE  Cardinality(Positions(Cons(r, s), q)) =
             Cardinality(Positions(s, q)) + (IF q = r THEN 1 ELSE 0)
<1> DEFINE P == Positions(s, q)
           t == Cons(r, s)
           Q == Positions(t, q)
           f == [i \in P |-> i + 1]
<1>1. /\ t \in Seq(Rule) /\ DOMAIN t = 1..(Len(s) + 1) /\ t[1] = r
      /\ \A i \in 1..Len(s) : t[i + 1] = s[i]
  BY ConsChain
<1>2. DOMAIN s = 1..Len(s) /\ Len(s) \in Nat
  BY LenProperties
<1> HIDE DEF t
<1>3. /\ \A i \in P : i \in 1..Len(s) /\ i + 1 \in Q \ {1}
      /\ \A j \in Q \ {1} : j - 1 \in P /\ j \in Int
  BY <1>1, <1>2 DEF Positions
<1>4. IsFiniteSet(P) /\ Cardinality(P) \in Nat /\ IsFiniteSet(Q)
  BY <1>1, PositionsFinite
<1> HIDE DEF P, Q
<1>5. IsFiniteSet(Q \ {1}) /\ Cardinality(Q \ {1}) = Cardinality(P)
  <2>1. f \in [P -> Q \ {1}]
    BY <1>3
  <2>2. \A x, y \in P : f[x] = f[y] => x = y
    BY <1>3
  <2>3. ASSUME NEW z \in Q \ {1} PROVE \E x \in P : f[x] = z
    <3>1. z - 1 \in P /\ f[z - 1] = z
      BY <1>3
    <3> QED
      BY <3>1
  <2> HIDE DEF f
  <2> QED
    BY <2>1, <2>2, <2>3, <1>4, SameSize
<1>6. CASE q = r
  <2>1. 1 \in Q
    BY <1>6, <1>1, <1>2 DEF Q, Positions
  <2>2. Cardinality(Q \ {1}) = Cardinality(Q) - 1 /\ Cardinality(Q) \in Nat
    BY <2>1, <1>4, FS_RemoveElement, FS_CardinalityType
  <2> QED
    BY <1>6, <2>2, <1>5, <1>4 DEF P, Q, t
<1>7. CASE q # r
  <2>1. 1 \notin Q
    BY <1>7, <1>1 DEF Q, Positions
  <2>2. Cardinality(Q) = Cardinality(P)
    <3>1. Q \ {1} = Q
      BY <2>1
    <3> QED
      BY <3>1, <1>5
  <2> QED
    BY <1>7, <2>2, <1>4 DEF P, Q, t
<1> QED
  BY <1>6, <1>7

(* A removal takes one copy of its rule and of no other.                    *)
LEMMA RemoveCount ==
  ASSUME NEW s \in Seq(Rule), NEW r, \E i \in DOMAIN s : s[i] = r, NEW q
  PROVE  Cardinality(Positions(RemoveFirst(s, r), q)) =
             Cardinality(Positions(s, q)) - (IF q = r THEN 1 ELSE 0)
<1> DEFINE t == RemoveFirst(s, r)
           P == Positions(t, q)
           Q == Positions(s, q)
<1>1. PICK k \in 1..Len(s) :
          /\ s[k] = r
          /\ \A i \in DOMAIN t : t[i] = IF i < k THEN s[i] ELSE s[i + 1]
  BY RemoveChain
<1>2. t \in Seq(Rule) /\ DOMAIN t = 1..(Len(s) - 1)
  BY RemoveChain
<1>3. DOMAIN s = 1..Len(s) /\ Len(s) \in Nat
  BY LenProperties
<1> DEFINE f == [i \in P |-> IF i < k THEN i ELSE i + 1]
<1> HIDE DEF t
<1>4. /\ \A i \in P : i \in Int /\ (IF i < k THEN i ELSE i + 1) \in Q \ {k}
      /\ \A j \in Q \ {k} : j \in Int /\ (IF j < k THEN j ELSE j - 1) \in P
  <2>1. ASSUME NEW i \in P PROVE i \in Int /\ (IF i < k THEN i ELSE i + 1) \in Q \ {k}
    <3>1. i \in 1..(Len(s) - 1) /\ t[i] = q
      BY <1>2 DEF Positions
    <3>2. CASE i < k
      BY <1>1, <1>2, <1>3, <3>1, <3>2 DEF Positions
    <3>3. CASE ~(i < k)
      BY <1>1, <1>2, <1>3, <3>1, <3>3 DEF Positions
    <3> QED
      BY <3>1, <3>2, <3>3
  <2>2. ASSUME NEW j \in Q \ {k} PROVE j \in Int /\ (IF j < k THEN j ELSE j - 1) \in P
    <3>1. j \in 1..Len(s) /\ j # k /\ s[j] = q
      BY <1>3 DEF Positions
    <3>2. CASE j < k
      <4>1. j \in DOMAIN t /\ t[j] = s[j]
        BY <1>1, <1>2, <1>3, <3>1, <3>2
      <4> QED
        BY <3>1, <3>2, <4>1 DEF Positions
    <3>3. CASE ~(j < k)
      <4>1. j - 1 \in DOMAIN t /\ ~(j - 1 < k) /\ (j - 1) + 1 = j
        BY <1>1, <1>2, <1>3, <3>1, <3>3
      <4>2. t[j - 1] = s[j]
        BY <1>1, <4>1
      <4> QED
        BY <3>1, <3>3, <4>1, <4>2 DEF Positions
    <3> QED
      BY <3>1, <3>2, <3>3
  <2> QED
    BY <2>1, <2>2
<1>5. IsFiniteSet(P) /\ Cardinality(P) \in Nat /\ IsFiniteSet(Q)
  BY <1>2, PositionsFinite
<1> HIDE DEF P, Q
<1>6. IsFiniteSet(Q \ {k}) /\ Cardinality(Q \ {k}) = Cardinality(P)
  <2>1. f \in [P -> Q \ {k}]
    BY <1>4
  <2>2. \A x, y \in P : f[x] = f[y] => x = y
    BY <1>4, <1>1
  <2>3. ASSUME NEW z \in Q \ {k} PROVE \E x \in P : f[x] = z
    <3> DEFINE x == IF z < k THEN z ELSE z - 1
    <3>1. x \in P /\ z \in Int /\ z # k
      BY <1>4
    <3>2. f[x] = z
      BY <3>1, <1>1
    <3> QED
      BY <3>1, <3>2
  <2> HIDE DEF f
  <2> QED
    BY <2>1, <2>2, <2>3, <1>5, SameSize
<1>7. CASE q = r
  <2>1. k \in Q
    BY <1>7, <1>1, <1>3 DEF Q, Positions
  <2>2. Cardinality(Q \ {k}) = Cardinality(Q) - 1 /\ Cardinality(Q) \in Nat
    BY <2>1, <1>5, FS_RemoveElement, FS_CardinalityType
  <2> QED
    BY <1>7, <2>2, <1>6, <1>5 DEF P, Q, t
<1>8. CASE q # r
  <2>1. k \notin Q
    BY <1>8, <1>1 DEF Q, Positions
  <2>2. Cardinality(Q) = Cardinality(P)
    <3>1. Q \ {k} = Q
      BY <2>1
    <3> QED
      BY <3>1, <1>6
  <2> QED
    BY <1>8, <2>2, <1>5 DEF P, Q, t
<1> QED
  BY <1>7, <1>8

-----------------------------------------------------------------------------
(***************************************************************************)
(* Types.                                                                  *)
(***************************************************************************)
(* The default configuration is one, and one that a rule can be built from. *)
LEMMA DefaultsTyped == Defaults \in Config /\ Defaults \in Rule
<1>1. Defaults \in Rule /\ Cidrs \subseteq Texts
  BY ClientLifeAssumption, Zenon
<1>2. ASSUME NEW r \in Rule PROVE r \in Config
  <2>1. r.port \in Port /\ r.cidr \in Texts
    BY <1>1 DEF Rule
  <2>2. r = [cidr |-> r.cidr, port |-> r.port]
    BY DEF Rule
  <2>3. Port \subseteq Int
    BY DEF Port
  <2> QED
    BY <2>1, <2>2, <2>3 DEF Config
<1> QED
  BY <1>1, <1>2

(* What a file, the environment or the flags set, some of it not at all.    *)
Fields == [cidr : Texts \cup {None}, port : Int \cup {None}]

(* Whatever is set in place of a configuration's fields, it stays one.      *)
LEMMA OverrideTyped ==
  ASSUME NEW base \in Config, NEW over \in Fields
  PROVE  Override(base, over) \in Config
<1>1. DOMAIN base = {"cidr", "port"}
  BY DEF Config
<1>2. Override(base, over) = [f \in {"cidr", "port"} |->
                                 IF over[f] = None THEN base[f] ELSE over[f]]
  BY <1>1 DEF Override
<1>3. /\ (IF over.cidr = None THEN base.cidr ELSE over.cidr) \in Texts
      /\ (IF over.port = None THEN base.port ELSE over.port) \in Int
  BY DEF Config, Fields
<1> QED
  BY <1>2, <1>3 DEF Config

(* So it is with one setting over another, and without what is empty.       *)
LEMMA FieldsTyped ==
  ASSUME NEW env \in Fields, NEW file \in Fields
  PROVE  Override(env, file) \in Fields /\ NonEmpty(env) \in Fields
<1>1. DOMAIN env = {"cidr", "port"}
  BY DEF Fields
<1>2. Override(env, file) = [f \in {"cidr", "port"} |->
                                IF file[f] = None THEN env[f] ELSE file[f]]
  BY <1>1 DEF Override
<1>3. /\ (IF file.cidr = None THEN env.cidr ELSE file.cidr) \in Texts \cup {None}
      /\ (IF file.port = None THEN env.port ELSE file.port) \in Int \cup {None}
  BY DEF Fields
<1>4. Override(env, file) \in Fields
  BY <1>2, <1>3 DEF Fields
<1>5. NonEmpty(env) \in Fields
  BY DEF Fields, NonEmpty
<1> QED
  BY <1>4, <1>5

LEMMA SettingsTyped == Settings \subseteq Fields
BY ClientLifeAssumption DEF Fields

LEMMA LoadTyped ==
  ASSUME NEW kind \in Kinds, NEW file \in Settings, NEW env \in Settings
  PROVE  Load(kind, file, env) \in Config
<1>1. Defaults \in Config
  BY DefaultsTyped
<1>2. CASE kind = "none"
  BY <1>1, <1>2 DEF Load
<1> file \in Fields /\ env \in Fields
  BY SettingsTyped
<1>3. CASE kind = ".env"
  <2>1. NonEmpty(Override(env, file)) \in Fields
    BY FieldsTyped
  <2> QED
    BY <1>1, <1>3, <2>1, OverrideTyped DEF Load
<1>4. CASE kind = "other"
  <2>1. NonEmpty(env) \in Fields
    BY FieldsTyped
  <2>2. Override(Defaults, file) \in Config
    BY <1>1, OverrideTyped
  <2> QED
    BY <1>4, <2>1, <2>2, OverrideTyped DEF Load
<1> QED
  BY <1>2, <1>3, <1>4 DEF Kinds

(* A process that ends keeps the types.                                     *)
LEMMA EndTyped ==
  ASSUME TypeOK, NEW p \in Procs, End(p)
  PROVE  /\ pc' \in [Procs -> {"down", "connect", "setup", "check", "insert"} \cup Holding]
         /\ config' \in [Procs -> Config]
         /\ \A q \in Procs : pc'[q] \in {"check", "insert"} \cup Holding => config'[q] \in Rule
         /\ alone' \in [Procs -> BOOLEAN]
<1>1. Defaults \in Config
  BY DefaultsTyped
<1> QED
  BY <1>1 DEF End, TypeOK, Holding

LEMMA ExitTyped ==
  ASSUME TypeOK, NEW p \in Procs, Exit(p)
  PROVE  TypeOK'
<1>1. left' \in SUBSET (Procs \X Rule)
  BY DEF Exit, TypeOK, RuleOf
<1> QED
  BY <1>1, EndTyped DEF Exit, TypeOK

(* A step of start or stop that changes nothing but where it is keeps the   *)
(* types if the process has a rule that was built.                          *)
LEMMA GotoTyped ==
  ASSUME TypeOK, NEW p \in Procs,
         NEW next \in {"setup", "check", "insert"} \cup Holding,
         pc' = [pc EXCEPT ![p] = next],
         config[p] \in Rule \/ next = "setup",
         UNCHANGED <<config, left, alone>>, chain' \in Seq(Rule)
  PROVE  TypeOK'
  BY DEF TypeOK, Holding

(* Every variable keeps its type: whatever the flags say, a rule that       *)
(* reaches the chain was validated by MustBuild.                            *)
THEOREM TypeCorrect == Spec => []TypeOK
<1>1. Init => TypeOK
  <2>1. Defaults \in Config
    BY DefaultsTyped
  <2> QED
    BY <2>1 DEF Init, TypeOK, Holding
<1>2. TypeOK /\ [Next]_vars => TypeOK'
  <2> SUFFICES ASSUME TypeOK, [Next]_vars PROVE TypeOK'
    OBVIOUS
  <2> USE DEF RuleOf
  <2>1. CASE UNCHANGED vars
    BY <2>1 DEF vars, TypeOK
  <2>2. ASSUME NEW p \in Procs, Launch(p) PROVE TypeOK'
    <3>1. PICK kind \in Kinds, file \in Settings, env \in Settings, flags \in Flags :
              config' = [config EXCEPT ![p] = applyOverrides(Load(kind, file, env), flags)]
      BY <2>2 DEF Launch
    <3>2. applyOverrides(Load(kind, file, env), flags) \in Config
      BY LoadTyped, SettingsTyped, OverrideTyped DEF Flags, applyOverrides
    <3> QED
      BY <2>2, <3>1, <3>2 DEF Launch, Goto, TypeOK, Holding
  <2>3. ASSUME NEW p \in Procs, Crash(p) PROVE TypeOK'
    <3>1. CASE pc[p] = "insert" /\ End(p) /\ chain' = Cons(RuleOf(p), chain)
                 /\ left' = left \cup {<<p, RuleOf(p)>>}
      <4>1. config[p] \in Rule /\ chain \in Seq(Rule)
        BY <3>1 DEF TypeOK
      <4>2. chain' \in Seq(Rule)
        BY <3>1, <4>1, ConsChain
      <4> QED
        BY <3>1, <4>1, <4>2, EndTyped DEF TypeOK
    <3> QED
      BY <2>3, <3>1, ExitTyped DEF Crash
  <2>4. ASSUME NEW p \in Procs, Connect(p) PROVE TypeOK'
    <3>1. CASE Goto(p, "connect", "setup") /\ UNCHANGED <<chain, config, left, alone>>
      BY <3>1, GotoTyped DEF Goto, TypeOK
    <3> QED
      BY <2>4, <3>1, ExitTyped DEF Connect
  <2>5. ASSUME NEW p \in Procs, BuildRule(p) PROVE TypeOK'
    <3>1. CASE Goto(p, "setup", "check") /\ ValidateRule(RuleOf(p))
                 /\ UNCHANGED <<chain, config, left, alone>>
      <4>1. config[p] \in Rule
        BY <3>1 DEF TypeOK, Config, Rule, ValidateRule
      <4> QED
        BY <3>1, <4>1, GotoTyped DEF Goto, TypeOK
    <3> QED
      BY <2>5, <3>1, ExitTyped DEF BuildRule
  <2>6. ASSUME NEW p \in Procs, CheckRule(p) PROVE TypeOK'
    <3>1. ASSUME NEW next \in {"insert", "listen"}, Goto(p, "check", next),
                 UNCHANGED <<chain, config, left, alone>>
          PROVE  TypeOK'
      BY <3>1, GotoTyped DEF Goto, TypeOK, Holding
    <3> QED
      BY <2>6, <3>1, ExitTyped DEF CheckRule
  <2>7. ASSUME NEW p \in Procs, InsertRule(p) PROVE TypeOK'
    <3>1. CASE Goto(p, "insert", "listen") /\ chain' = Cons(RuleOf(p), chain)
                 /\ UNCHANGED <<config, left, alone>>
      <4>1. config[p] \in Rule /\ chain \in Seq(Rule)
        BY <3>1 DEF TypeOK, Goto
      <4>2. chain' \in Seq(Rule)
        BY <3>1, <4>1, ConsChain
      <4> QED
        BY <3>1, <4>1, <4>2, GotoTyped DEF Goto, Holding
    <3> QED
      BY <2>7, <3>1, ExitTyped DEF InsertRule
  <2>8. ASSUME NEW p \in Procs, Listen(p) \/ StopBegin(p) \/ StopClosed(p) PROVE TypeOK'
    <3>1. ASSUME NEW from \in Holding, NEW next \in Holding, Goto(p, from, next),
                 UNCHANGED <<chain, config, left, alone>>
          PROVE  TypeOK'
      BY <3>1, GotoTyped DEF Goto, TypeOK
    <3> QED
      BY <2>8, <3>1 DEF Listen, StopBegin, StopClosed, Holding
  <2>9. ASSUME NEW p \in Procs, NetfilterCleanup(p) PROVE TypeOK'
    <3>1. CASE DeleteRule(p)
      <4>1. chain' \in Seq(Rule)
        BY <3>1, RemoveChain, RemoveNothing DEF DeleteRule, TypeOK
      <4> QED
        BY <3>1, <4>1, EndTyped DEF DeleteRule, TypeOK
    <3> QED
      BY <2>9, <3>1, ExitTyped DEF NetfilterCleanup
  <2>10. ASSUME NEW p \in Procs, StopTimeout(p) PROVE TypeOK'
    BY <2>10, ExitTyped DEF StopTimeout
  <2> QED
    BY <2>1, <2>2, <2>3, <2>4, <2>5, <2>6, <2>7, <2>8, <2>9, <2>10 DEF Next
<1> QED
  BY <1>1, <1>2, PTL DEF Spec

-----------------------------------------------------------------------------
(***************************************************************************)
(* The number of rules.                                                    *)
(***************************************************************************)
(* The account of one rule, in the chain or not.                            *)
Accounted(rule) == Cardinality(Copies(rule)) <= Cardinality(Answering(rule))

AllAccounted == \A rule \in Rule : Accounted(rule)

(* The processes that answer for a rule are finitely many, now and after a  *)
(* step, as are its copies.                                                 *)
LEMMA AccountFinite ==
  ASSUME TypeOK, TypeOK', NEW rule
  PROVE  /\ IsFiniteSet(Answering(rule)) /\ Cardinality(Answering(rule)) \in Nat
         /\ IsFiniteSet(Answering(rule)') /\ Cardinality(Answering(rule)') \in Nat
         /\ Cardinality(Copies(rule)) \in Nat
<1>1. Answering(rule) \subseteq Procs /\ Answering(rule)' \subseteq Procs
  BY DEF Answering
<1>2. IsFiniteSet(Procs)
  BY ClientLifeAssumption, Zenon
<1>3. IsFiniteSet(Answering(rule)) /\ IsFiniteSet(Answering(rule)')
  BY <1>1, <1>2, FS_Subset
<1>4. Copies(rule) = Positions(chain, rule)
  BY DEF Copies, Positions
<1>5. chain \in Seq(Rule)
  BY DEF TypeOK
<1> QED
  BY <1>3, <1>4, <1>5, FS_CardinalityType, PositionsFinite

(* A step that lets nobody go and adds no copy keeps the account.           *)
LEMMA AccountGrows ==
  ASSUME TypeOK, TypeOK', NEW rule, Accounted(rule),
         Answering(rule) \subseteq Answering(rule)',
         Cardinality(Copies(rule)') <= Cardinality(Copies(rule)),
         Cardinality(Copies(rule)') \in Nat
  PROVE  Accounted(rule)'
<1>1. Cardinality(Answering(rule)) <= Cardinality(Answering(rule)')
  BY AccountFinite, FS_Subset
<1> QED
  BY <1>1, AccountFinite DEF Accounted

(* The same for all rules at once.                                          *)
LEMMA AllGrow ==
  ASSUME TypeOK, TypeOK', AllAccounted, chain' = chain,
         \A rule \in Rule : Answering(rule) \subseteq Answering(rule)'
  PROVE  AllAccounted'
<1> SUFFICES ASSUME NEW rule \in Rule PROVE Accounted(rule)'
  BY DEF AllAccounted
<1>1. Copies(rule)' = Copies(rule)
  BY DEF Copies
<1>2. Cardinality(Copies(rule)) \in Nat
  BY AccountFinite
<1>3. Cardinality(Copies(rule)') <= Cardinality(Copies(rule)) /\ Cardinality(Copies(rule)') \in Nat
  BY <1>1, <1>2
<1> QED
  BY <1>3, AccountGrows DEF AllAccounted

(* An insertion comes with a process that answers for it.                   *)
LEMMA AllInsert ==
  ASSUME TypeOK, TypeOK', AllAccounted, NEW p \in Procs, NEW r \in Rule,
         chain' = Cons(r, chain),
         p \notin Answering(r), Answering(r)' = Answering(r) \cup {p},
         \A rule \in Rule \ {r} : Answering(rule) \subseteq Answering(rule)'
  PROVE  AllAccounted'
<1> SUFFICES ASSUME NEW rule \in Rule PROVE Accounted(rule)'
  BY DEF AllAccounted
<1>1. Copies(rule) = Positions(chain, rule) /\ Copies(rule)' = Positions(chain', rule)
  BY DEF Copies, Positions
<1>2. chain \in Seq(Rule)
  BY DEF TypeOK
<1>3. Cardinality(Copies(rule)') = Cardinality(Copies(rule)) + (IF rule = r THEN 1 ELSE 0)
  BY <1>1, <1>2, ConsCount
<1>4. Cardinality(Copies(rule)) \in Nat
  BY AccountFinite
<1>5. CASE rule = r
  <2>1. Cardinality(Answering(r)') = Cardinality(Answering(r)) + 1
    BY AccountFinite, FS_AddElement
  <2>2. Cardinality(Copies(r)) <= Cardinality(Answering(r))
    BY DEF AllAccounted, Accounted
  <2>3. Cardinality(Copies(r)') = Cardinality(Copies(r)) + 1
    BY <1>3, <1>5
  <2>4. Cardinality(Copies(r)') <= Cardinality(Answering(r)')
    BY <2>1, <2>2, <2>3, <1>4, <1>5, AccountFinite
  <2> QED
    BY <2>4, <1>5 DEF Accounted
<1>6. CASE rule # r
  <2>1. Cardinality(Copies(rule)') <= Cardinality(Copies(rule)) /\ Cardinality(Copies(rule)') \in Nat
    BY <1>3, <1>4, <1>6
  <2>2. Answering(rule) \subseteq Answering(rule)' /\ Accounted(rule)
    BY <1>6 DEF AllAccounted
  <2> QED
    BY <2>1, <2>2, AccountGrows
<1> QED
  BY <1>5, <1>6

(* A process that removes its rule takes a copy with it, if there is one.   *)
LEMMA AllDelete ==
  ASSUME TypeOK, TypeOK', AllAccounted, NEW p \in Procs, NEW r \in Rule,
         chain' = RemoveFirst(chain, r),
         p \in Answering(r), Answering(r)' = Answering(r) \ {p},
         \A rule \in Rule \ {r} : Answering(rule) \subseteq Answering(rule)'
  PROVE  AllAccounted'
<1> SUFFICES ASSUME NEW rule \in Rule PROVE Accounted(rule)'
  BY DEF AllAccounted
<1>1. Copies(rule) = Positions(chain, rule) /\ Copies(rule)' = Positions(chain', rule)
  BY DEF Copies, Positions
<1>2. chain \in Seq(Rule) /\ chain' \in Seq(Rule)
  BY DEF TypeOK
<1>3. Cardinality(Copies(rule)) \in Nat /\ Cardinality(Copies(rule)') \in Nat
  BY <1>1, <1>2, PositionsFinite
<1>4. CASE \E i \in DOMAIN chain : chain[i] = r
  <2>1. Cardinality(Copies(rule)') = Cardinality(Copies(rule)) - (IF rule = r THEN 1 ELSE 0)
    BY <1>1, <1>2, <1>4, RemoveCount
  <2>2. CASE rule = r
    <3>1. Cardinality(Answering(r)') = Cardinality(Answering(r)) - 1
      BY AccountFinite, FS_RemoveElement
    <3>2. Cardinality(Copies(r)) <= Cardinality(Answering(r))
      BY DEF AllAccounted, Accounted
    <3>3. Cardinality(Copies(r)') = Cardinality(Copies(r)) - 1
      BY <2>1, <2>2
    <3>4. Cardinality(Copies(r)') <= Cardinality(Answering(r)')
      BY <3>1, <3>2, <3>3, <1>3, <2>2, AccountFinite
    <3> QED
      BY <3>4, <2>2 DEF Accounted
  <2>3. CASE rule # r
    <3>1. Cardinality(Copies(rule)') <= Cardinality(Copies(rule))
      BY <2>1, <2>3, <1>3
    <3>2. Answering(rule) \subseteq Answering(rule)' /\ Accounted(rule)
      BY <2>3 DEF AllAccounted
    <3> QED
      BY <3>1, <3>2, <1>3, AccountGrows
  <2> QED
    BY <2>2, <2>3
<1>5. CASE ~ \E i \in DOMAIN chain : chain[i] = r
  <2>1. chain' = chain
    BY <1>2, <1>5, RemoveNothing
  <2>2. CASE rule = r
    <3>1. Copies(rule)' = {}
      BY <2>1, <2>2, <1>5 DEF Copies
    <3>2. Cardinality(Copies(rule)') = 0
      BY <3>1, FS_EmptySet
    <3> QED
      BY <3>2, AccountFinite DEF Accounted
  <2>3. CASE rule # r
    <3>1. Copies(rule)' = Copies(rule)
      BY <2>1 DEF Copies
    <3>2. Cardinality(Copies(rule)') <= Cardinality(Copies(rule))
      BY <3>1, <1>3
    <3>3. Answering(rule) \subseteq Answering(rule)' /\ Accounted(rule)
      BY <2>3 DEF AllAccounted
    <3> QED
      BY <3>2, <3>3, <1>3, AccountGrows
  <2> QED
    BY <2>2, <2>3
<1> QED
  BY <1>4, <1>5

(* The end of a process leaves its rule to its account.                     *)
LEMMA ExitAccounted ==
  ASSUME TypeOK, TypeOK', AllAccounted, NEW p \in Procs, Exit(p)
  PROVE  AllAccounted'
<1>1. \A rule \in Rule : Answering(rule) \subseteq Answering(rule)'
  BY DEF Exit, End, Answering, TypeOK, Holding, RuleOf
<1> QED
  BY <1>1, AllGrow DEF Exit

(* A step of start or stop that neither inserts nor gives up a rule.        *)
LEMMA GotoAccounted ==
  ASSUME TypeOK, TypeOK', AllAccounted, NEW p \in Procs,
         NEW from, NEW next, Goto(p, from, next), UNCHANGED <<chain, config, left, alone>>,
         from \in Holding => next \in Holding, next # "insert"
  PROVE  AllAccounted'
<1>1. \A rule \in Rule : Answering(rule) \subseteq Answering(rule)'
  BY DEF Goto, Answering, TypeOK, RuleOf
<1> QED
  BY <1>1, AllGrow

(* What RulesAccounted says of the rules in the chain holds of all.         *)
LEMMA AccountOfChain ==
  ASSUME TypeOK, AllAccounted
  PROVE  RulesAccounted
<1>1. \A i \in DOMAIN chain : chain[i] \in Rule
  BY LenProperties DEF TypeOK
<1> QED
  BY <1>1 DEF AllAccounted, Accounted, RulesAccounted

(* The account of all rules holds in every reachable state.                 *)
LEMMA AccountInvariant == Spec => []AllAccounted
<1>1. Init => AllAccounted
  <2> SUFFICES ASSUME Init, NEW rule \in Rule PROVE Accounted(rule)
    BY DEF AllAccounted
  <2>1. Copies(rule) = {} /\ Answering(rule) = {}
    BY DEF Init, Copies, Answering, Holding
  <2> QED
    BY <2>1, FS_EmptySet DEF Accounted
<1>2. TypeOK /\ TypeOK' /\ AllAccounted /\ [Next]_vars => AllAccounted'
  <2> SUFFICES ASSUME TypeOK, TypeOK', AllAccounted, [Next]_vars PROVE AllAccounted'
    OBVIOUS
  <2>1. CASE UNCHANGED vars
    <3>1. \A rule \in Rule : Answering(rule) \subseteq Answering(rule)'
      BY <2>1 DEF vars, Answering, RuleOf
    <3> QED
      BY <2>1, <3>1, AllGrow DEF vars
  <2>2. ASSUME NEW p \in Procs, Launch(p) PROVE AllAccounted'
    <3>1. \A rule \in Rule : Answering(rule) \subseteq Answering(rule)'
      <4>1. /\ pc[p] = "down" /\ pc' = [pc EXCEPT ![p] = "connect"] /\ left' = left
            /\ \A q \in Procs : q # p => config'[q] = config[q]
        <5>1. PICK c : config' = [config EXCEPT ![p] = c]
          BY <2>2 DEF Launch
        <5> QED
          BY <2>2, <5>1 DEF Launch, Goto, TypeOK
      <4> QED
        BY <4>1 DEF Answering, TypeOK, Holding, RuleOf
    <3> QED
      BY <2>2, <3>1, AllGrow DEF Launch
  <2>3. ASSUME NEW p \in Procs, Crash(p) PROVE AllAccounted'
    <3>1. CASE pc[p] = "insert" /\ End(p) /\ chain' = Cons(RuleOf(p), chain)
                 /\ left' = left \cup {<<p, RuleOf(p)>>}
      <4>1. PICK r \in Rule : r = RuleOf(p)
        BY <3>1 DEF TypeOK, RuleOf
      <4>2. p \notin Answering(r)
        BY <3>1, <4>1 DEF Answering, Holding
      <4>3. Answering(r)' = Answering(r) \cup {p}
        BY <3>1, <4>1 DEF End, Answering, TypeOK, Holding, RuleOf
      <4>4. \A rule \in Rule \ {r} : Answering(rule) \subseteq Answering(rule)'
        BY <3>1, <4>1 DEF End, Answering, TypeOK, Holding, RuleOf
      <4>5. chain' = Cons(r, chain)
        BY <3>1, <4>1
      <4> QED
        BY <4>2, <4>3, <4>4, <4>5, AllInsert
    <3> QED
      BY <2>3, <3>1, ExitAccounted DEF Crash
  <2>4. ASSUME NEW p \in Procs, Connect(p) PROVE AllAccounted'
    <3>1. CASE Goto(p, "connect", "setup") /\ UNCHANGED <<chain, config, left, alone>>
      BY <3>1, GotoAccounted DEF Holding
    <3> QED
      BY <2>4, <3>1, ExitAccounted DEF Connect
  <2>5. ASSUME NEW p \in Procs, BuildRule(p) PROVE AllAccounted'
    <3>1. CASE Goto(p, "setup", "check") /\ UNCHANGED <<chain, config, left, alone>>
      BY <3>1, GotoAccounted DEF Holding
    <3> QED
      BY <2>5, <3>1, ExitAccounted DEF BuildRule
  <2>6. ASSUME NEW p \in Procs, CheckRule(p) PROVE AllAccounted'
    <3>1. CASE ~Exists(RuleOf(p)) /\ Goto(p, "check", "insert")
                 /\ UNCHANGED <<chain, config, left, alone>>
      <4> SUFFICES ASSUME NEW rule \in Rule PROVE Accounted(rule)'
        BY DEF AllAccounted
      <4>1. CASE rule = RuleOf(p)
        <5>1. Copies(rule)' = {}
          BY <3>1, <4>1 DEF Copies, Exists
        <5>2. Cardinality(Copies(rule)') = 0
          BY <5>1, FS_EmptySet
        <5> QED
          BY <5>2, AccountFinite DEF Accounted
      <4>2. CASE rule # RuleOf(p)
        <5>1. Answering(rule) \subseteq Answering(rule)'
          BY <3>1, <4>2 DEF Goto, Answering, TypeOK, Holding, RuleOf
        <5>2. Copies(rule)' = Copies(rule)
          BY <3>1 DEF Copies
        <5>3. Cardinality(Copies(rule)') <= Cardinality(Copies(rule))
                /\ Cardinality(Copies(rule)') \in Nat
          BY <5>2, AccountFinite
        <5> QED
          BY <5>1, <5>3, AccountGrows DEF AllAccounted
      <4> QED
        BY <4>1, <4>2
    <3>2. CASE Goto(p, "check", "listen") /\ UNCHANGED <<chain, config, left, alone>>
      BY <3>2, GotoAccounted DEF Holding
    <3> QED
      BY <2>6, <3>1, <3>2, ExitAccounted DEF CheckRule
  <2>7. ASSUME NEW p \in Procs, InsertRule(p) PROVE AllAccounted'
    <3>1. CASE Goto(p, "insert", "listen") /\ chain' = Cons(RuleOf(p), chain)
                 /\ UNCHANGED <<config, left, alone>>
      <4>1. PICK r \in Rule : r = RuleOf(p)
        BY <3>1 DEF Goto, TypeOK, RuleOf
      <4>2. p \notin Answering(r)
        BY <3>1, <4>1 DEF Goto, Answering, Holding
      <4>3. Answering(r)' = Answering(r) \cup {p}
        BY <3>1, <4>1 DEF Goto, Answering, TypeOK, Holding, RuleOf
      <4>4. \A rule \in Rule \ {r} : Answering(rule) \subseteq Answering(rule)'
        BY <3>1, <4>1 DEF Goto, Answering, TypeOK, Holding, RuleOf
      <4>5. chain' = Cons(r, chain)
        BY <3>1, <4>1
      <4> QED
        BY <4>2, <4>3, <4>4, <4>5, AllInsert
    <3> QED
      BY <2>7, <3>1, ExitAccounted DEF InsertRule
  <2>8. ASSUME NEW p \in Procs, Listen(p) \/ StopBegin(p) \/ StopClosed(p)
        PROVE  AllAccounted'
    <3>1. ASSUME NEW from, NEW next \in Holding, Goto(p, from, next),
                 UNCHANGED <<chain, config, left, alone>>
          PROVE  AllAccounted'
      BY <3>1, GotoAccounted DEF Holding
    <3> QED
      BY <2>8, <3>1 DEF Listen, StopBegin, StopClosed, Holding
  <2>9. ASSUME NEW p \in Procs, NetfilterCleanup(p) PROVE AllAccounted'
    <3>1. CASE DeleteRule(p)
      <4>1. PICK r \in Rule : r = RuleOf(p)
        BY <2>9 DEF NetfilterCleanup, TypeOK, Holding, RuleOf
      <4>2. p \in Answering(r)
        BY <2>9, <4>1 DEF NetfilterCleanup, Answering, Holding
      <4>3. Answering(r)' = Answering(r) \ {p}
        BY <3>1, <4>1 DEF DeleteRule, End, Answering, TypeOK, Holding, RuleOf
      <4>4. \A rule \in Rule \ {r} : Answering(rule) \subseteq Answering(rule)'
        BY <2>9, <3>1, <4>1 DEF DeleteRule, End, Answering, TypeOK, Holding, RuleOf
      <4>5. chain' = RemoveFirst(chain, r)
        BY <3>1, <4>1 DEF DeleteRule
      <4> QED
        BY <4>2, <4>3, <4>4, <4>5, AllDelete
    <3> QED
      BY <2>9, <3>1, ExitAccounted DEF NetfilterCleanup
  <2>10. ASSUME NEW p \in Procs, StopTimeout(p) PROVE AllAccounted'
    BY <2>10, ExitAccounted DEF StopTimeout
  <2> QED
    BY <2>1, <2>2, <2>3, <2>4, <2>5, <2>6, <2>7, <2>8, <2>9, <2>10 DEF Next
<1> QED
  BY <1>1, <1>2, TypeCorrect, PTL DEF Spec

(* There are never more copies of a rule than processes that hold it or     *)
(* ended without removing theirs: Apply checks before it inserts, and every *)
(* failure after that cleans up or leaves the rule to the next run.         *)
THEOREM RulesAreAccounted == Spec => []RulesAccounted
<1>1. TypeOK /\ AllAccounted => RulesAccounted
  BY AccountOfChain
<1> QED
  BY <1>1, TypeCorrect, AccountInvariant, PTL

-----------------------------------------------------------------------------
(***************************************************************************)
(* The rule of a process that runs alone.                                  *)
(***************************************************************************)
(* Nobody is up beside a process that has been alone, and it has its rule.  *)
Solitary ==
  /\ \A p, q \in Procs : alone[p] /\ pc[p] # "down" /\ q # p => pc[q] = "down"
  /\ \A p \in Procs : alone[p] /\ pc[p] \in Holding => Exists(RuleOf(p))

LEMMA ExitSolitary ==
  ASSUME TypeOK, Solitary, NEW p \in Procs, pc[p] # "down", End(p)
  PROVE  Solitary'
<1>1. \A q, o \in Procs : alone'[q] /\ pc'[q] # "down" /\ o # q => pc'[o] = "down"
  BY DEF End, Solitary, TypeOK
<1>2. ASSUME NEW q \in Procs, alone'[q] /\ pc'[q] \in Holding PROVE FALSE
  BY <1>2 DEF End, Solitary, TypeOK, Holding
<1> QED
  BY <1>1, <1>2 DEF Solitary

(* A step of the control alone; into Holding only with the rule there.      *)
LEMMA GotoSolitary ==
  ASSUME TypeOK, Solitary, NEW p \in Procs, NEW from, NEW next, Goto(p, from, next),
         from # "down", UNCHANGED <<config, alone>>,
         next \in Holding => Exists(RuleOf(p))',
         from \notin Holding \/ UNCHANGED chain
  PROVE  Solitary'
<1>1. \A q, o \in Procs : alone'[q] /\ pc'[q] # "down" /\ o # q => pc'[o] = "down"
  BY DEF Goto, Solitary, TypeOK
<1>2. ASSUME NEW q \in Procs, alone'[q] /\ pc'[q] \in Holding PROVE Exists(RuleOf(q))'
  <2>1. CASE q = p
    BY <1>2, <2>1 DEF Goto, TypeOK
  <2>2. CASE q # p
    BY <1>2, <2>2 DEF Goto, TypeOK, Solitary, Holding
  <2> QED
    BY <2>1, <2>2
<1> QED
  BY <1>1, <1>2 DEF Solitary

LEMMA SolitaryInvariant == Spec => []Solitary
<1>1. Init => Solitary
  BY DEF Init, Solitary, Holding
<1>2. TypeOK /\ Solitary /\ [Next]_vars => Solitary'
  <2> SUFFICES ASSUME TypeOK, Solitary, [Next]_vars
               PROVE  Solitary'
    OBVIOUS
  <2>1. CASE UNCHANGED vars
    BY <2>1 DEF vars, Solitary, Exists, RuleOf
  <2>2. ASSUME NEW p \in Procs, Launch(p) PROVE Solitary'
    <3>1. /\ pc[p] = "down" /\ pc' = [pc EXCEPT ![p] = "connect"]
          /\ alone' = [q \in Procs |-> q = p /\ \A r \in Procs \ {p} : pc[r] = "down"]
      BY <2>2 DEF Launch, Goto
    <3>2. \A q, o \in Procs : alone'[q] /\ pc'[q] # "down" /\ o # q => pc'[o] = "down"
      BY <3>1 DEF TypeOK
    <3>3. \A q \in Procs : alone'[q] => pc'[q] \notin Holding
      BY <3>1 DEF TypeOK, Holding
    <3> QED
      BY <3>2, <3>3 DEF Solitary
  <2>3. ASSUME NEW p \in Procs, pc[p] # "down", Exit(p) PROVE Solitary'
    BY <2>3, ExitSolitary DEF Exit
  <2>4. ASSUME NEW p \in Procs, Crash(p) PROVE Solitary'
    BY <2>3, <2>4, ExitSolitary DEF Crash
  <2>5. ASSUME NEW p \in Procs, Connect(p) PROVE Solitary'
    <3>1. CASE Goto(p, "connect", "setup") /\ UNCHANGED <<chain, config, left, alone>>
      BY <3>1, GotoSolitary DEF Holding
    <3> QED
      BY <2>3, <2>5, <3>1 DEF Connect
  <2>6. ASSUME NEW p \in Procs, BuildRule(p) PROVE Solitary'
    <3>1. CASE Goto(p, "setup", "check") /\ UNCHANGED <<chain, config, left, alone>>
      BY <3>1, GotoSolitary DEF Holding
    <3> QED
      BY <2>3, <2>6, <3>1 DEF BuildRule
  <2>7. ASSUME NEW p \in Procs, CheckRule(p) PROVE Solitary'
    <3>1. CASE Goto(p, "check", "insert") /\ UNCHANGED <<chain, config, left, alone>>
      BY <3>1, GotoSolitary DEF Holding
    <3>2. CASE Exists(RuleOf(p)) /\ Goto(p, "check", "listen")
                 /\ UNCHANGED <<chain, config, left, alone>>
      <4>1. Exists(RuleOf(p))'
        BY <3>2 DEF Exists, RuleOf
      <4> QED
        BY <3>2, <4>1, GotoSolitary DEF Holding
    <3> QED
      BY <2>3, <2>7, <3>1, <3>2 DEF CheckRule
  <2>8. ASSUME NEW p \in Procs, InsertRule(p) PROVE Solitary'
    <3>1. CASE Goto(p, "insert", "listen") /\ chain' = Cons(RuleOf(p), chain)
                 /\ UNCHANGED <<config, left, alone>>
      <4>1. PICK r \in Rule : r = RuleOf(p)
        BY <3>1 DEF Goto, TypeOK, RuleOf
      <4>2. chain' = Cons(r, chain) /\ chain \in Seq(Rule)
        BY <3>1, <4>1 DEF TypeOK
      <4>3. DOMAIN Cons(r, chain) = 1..(Len(chain) + 1) /\ Cons(r, chain)[1] = r
        BY <4>2, ConsChain
      <4>4. 1 \in DOMAIN chain' /\ chain'[1] = r
        BY <4>2, <4>3, LenProperties
      <4>5. Exists(RuleOf(p))'
        BY <3>1, <4>1, <4>4 DEF Exists, RuleOf
      <4> QED
        BY <3>1, <4>5, GotoSolitary DEF Holding
    <3> QED
      BY <2>3, <2>8, <3>1 DEF InsertRule
  <2>9. ASSUME NEW p \in Procs, Listen(p) \/ StopBegin(p) \/ StopClosed(p)
        PROVE  Solitary'
    <3>1. ASSUME NEW from \in {"listen", "run", "closing"}, NEW next, Goto(p, from, next),
                 UNCHANGED <<chain, config, left, alone>>
          PROVE  Solitary'
      <4>1. alone[p] => Exists(RuleOf(p))'
        BY <3>1 DEF Goto, Solitary, Holding, Exists, RuleOf
      <4>2. CASE alone[p]
        BY <3>1, <4>1, <4>2, GotoSolitary
      <4>3. CASE ~alone[p]
        BY <3>1, <4>3 DEF Goto, Solitary, TypeOK, Exists, RuleOf
      <4> QED
        BY <4>2, <4>3
    <3> QED
      BY <2>9, <3>1 DEF Listen, StopBegin, StopClosed
  <2>10. ASSUME NEW p \in Procs, NetfilterCleanup(p) \/ StopTimeout(p) PROVE Solitary'
    <3>1. pc[p] # "down"
      BY <2>10 DEF NetfilterCleanup, StopTimeout
    <3> QED
      BY <2>3, <2>10, <3>1, ExitSolitary DEF NetfilterCleanup, StopTimeout, DeleteRule
  <2> QED
    BY <2>1, <2>2, <2>4, <2>5, <2>6, <2>7, <2>8, <2>9, <2>10 DEF Next
<1> QED
  BY <1>1, <1>2, TypeCorrect, PTL DEF Spec

(* Copies of a rule that is in the chain have somebody to answer for them.  *)
LEMMA SomebodyAnswers ==
  ASSUME TypeOK, AllAccounted, NEW i \in DOMAIN chain
  PROVE  Answering(chain[i]) # {}
<1> DEFINE rule == chain[i]
<1>1. rule \in Rule
  BY DEF TypeOK
<1>2. i \in Copies(rule)
  BY DEF Copies
<1>3. IsFiniteSet(Copies(rule)) /\ Cardinality(Copies(rule)) \in Nat
  <2>1. Copies(rule) = Positions(chain, rule)
    BY DEF Copies, Positions
  <2> QED
    BY <2>1, PositionsFinite DEF TypeOK
<1>4. Cardinality(Copies(rule)) # 0
  BY <1>2, <1>3, FS_EmptySet
<1>5. Cardinality(Copies(rule)) <= Cardinality(Answering(rule))
  BY <1>1 DEF AllAccounted, Accounted
<1>6. CASE Answering(rule) = {}
  <2>1. Cardinality(Answering(rule)) = 0
    BY <1>6, FS_EmptySet
  <2> QED
    BY <1>3, <1>4, <1>5, <2>1
<1> QED
  BY <1>6

(* A client that no other ran beside, once Setup is over, has its rule, and *)
(* the rule decides about every address of the target network but those     *)
(* that a rule of another configuration, left over in front, covers.        *)
THEOREM RunningRedirected == Spec => []RunningIsRedirected
<1>1. TypeOK /\ AllAccounted /\ Solitary => RunningIsRedirected
  <2> SUFFICES ASSUME TypeOK, AllAccounted, Solitary,
                      NEW p \in Procs, alone[p], pc[p] \in Holding,
                      NEW address \in Covers[RuleOf(p).cidr]
               PROVE  /\ Exists(RuleOf(p))
                      /\ GoesTo(address, RuleOf(p).port) \/ Shadowed(p, address)
    BY DEF RunningIsRedirected, Solitary
  <2>1. Exists(RuleOf(p))
    BY DEF Solitary
  <2> DEFINE covering == {i \in DOMAIN chain : address \in Covers[chain[i].cidr]}
  <2>2. PICK i \in covering : \A j \in covering : i <= j
    <3>1. covering # {}
      BY <2>1 DEF Exists
    <3>2. covering \subseteq Nat
      BY DEF TypeOK
    <3> QED
      BY <3>1, <3>2, LeastExists
  <2>3. \A j \in 1..(i - 1) : address \notin Covers[chain[j].cidr]
    BY <2>2 DEF TypeOK
  <2>4. CASE chain[i] = RuleOf(p)
    BY <2>1, <2>2, <2>3, <2>4 DEF GoesTo
  <2>5. CASE chain[i] # RuleOf(p)
    <3>1. PICK q \in Procs : q \in Answering(chain[i])
      BY <2>2, SomebodyAnswers DEF Answering
    <3>2. ~(pc[q] \in Holding /\ RuleOf(q) = chain[i])
      BY <2>5, <3>1 DEF Solitary, Holding
    <3>3. <<q, chain[i]>> \in left
      BY <3>1, <3>2 DEF Answering
    <3> QED
      BY <2>1, <2>2, <2>5, <3>3 DEF Shadowed
  <2> QED
    BY <2>4, <2>5
<1> QED
  BY <1>1, TypeCorrect, AccountInvariant, SolitaryInvariant, PTL
=============================================================================
