----------------------------- MODULE TunnelProofs -----------------------------
(***************************************************************************)
(* Theorems about one connection ID from end to end, for any connections   *)
(* of the application and of targets, and channels and streams of any      *)
(* capacity: that the tunnel implements ByteStream.                        *)
(***************************************************************************)
EXTENDS Tunnel, SequenceTheorems, TLAPS

-----------------------------------------------------------------------------
(***************************************************************************)
(* Sequences of chunks, and what a step makes of the pipe.                 *)
(***************************************************************************)
LEMMA TailOfChunks ==
  ASSUME NEW q \in Seq(Chunk), q # <<>>
  PROVE  /\ Len(q) \in Nat \ {0}
         /\ Head(q) \in Chunk /\ Head(q) = q[1]
         /\ Tail(q) \in Seq(Chunk) /\ Len(Tail(q)) = Len(q) - 1
         /\ \A i \in 1..Len(Tail(q)) : Tail(q)[i] = q[i + 1]
BY HeadTailProperties, EmptySeq, LenProperties, ElementOfSeq

LEMMA AppendToChunks ==
  ASSUME NEW q \in Seq(Chunk), NEW c \in Chunk
  PROVE  /\ Len(q) \in Nat
         /\ Append(q, c) \in Seq(Chunk) /\ Len(Append(q, c)) = Len(q) + 1
         /\ \A i \in 1..Len(q) : Append(q, c)[i] = q[i]
         /\ Append(q, c)[Len(q) + 1] = c
BY AppendProperties, LenProperties

Line == [Directions -> [Stages -> Seq(Chunk)]]

LEMMA PipeTyped ==
  ASSUME TypeOK
  PROVE  pipe \in Line
BY DEF TypeOK, Line

LEMMA TakenShape ==
  ASSUME TypeOK, NEW d \in Directions, NEW k \in Stages, Waiting(d, k)
  PROVE  /\ First(d, k) \in Chunk /\ First(d, k) = pipe[d][k][1]
         /\ 1 \in 1..Len(pipe[d][k])
         /\ Taken(d, k) \in Line
         /\ \A e \in Directions, l \in Stages : e # d \/ l # k => Taken(d, k)[e][l] = pipe[e][l]
         /\ Len(Taken(d, k)[d][k]) = Len(pipe[d][k]) - 1
         /\ \A i \in 1..Len(Taken(d, k)[d][k]) : Taken(d, k)[d][k][i] = pipe[d][k][i + 1]
<1>1. pipe \in Line
  BY PipeTyped
<1>2. Taken(d, k)[d][k] = Tail(pipe[d][k])
  BY <1>1 DEF Taken, Line
<1>3. pipe[d][k] \in Seq(Chunk) /\ pipe[d][k] # <<>>
  BY <1>1 DEF Line, Waiting
<1>4. Tail(pipe[d][k]) \in Seq(Chunk)
  BY <1>3, TailOfChunks
<1>5. Taken(d, k) \in Line
  BY <1>1, <1>4 DEF Taken, Line
<1>6. \A e \in Directions, l \in Stages : e # d \/ l # k => Taken(d, k)[e][l] = pipe[e][l]
  BY <1>1 DEF Taken, Line
<1> QED
  BY <1>2, <1>3, <1>5, <1>6, TailOfChunks DEF First

LEMMA PassedShape ==
  ASSUME TypeOK, NEW d \in Directions, NEW k \in 1..5, Waiting(d, k)
  PROVE  /\ First(d, k) \in Chunk /\ First(d, k) = pipe[d][k][1]
         /\ 1 \in 1..Len(pipe[d][k])
         /\ Passed(d, k) \in Line
         /\ \A e \in Directions, l \in Stages :
                e # d \/ l \notin {k, k + 1} => Passed(d, k)[e][l] = pipe[e][l]
         /\ Len(Passed(d, k)[d][k]) = Len(pipe[d][k]) - 1
         /\ \A i \in 1..Len(Passed(d, k)[d][k]) : Passed(d, k)[d][k][i] = pipe[d][k][i + 1]
         /\ Len(Passed(d, k)[d][k + 1]) = Len(pipe[d][k + 1]) + 1
         /\ \A i \in 1..Len(pipe[d][k + 1]) : Passed(d, k)[d][k + 1][i] = pipe[d][k + 1][i]
         /\ Passed(d, k)[d][k + 1][Len(pipe[d][k + 1]) + 1] = pipe[d][k][1]
<1>1. pipe \in Line /\ k \in Stages /\ k + 1 \in Stages /\ k # k + 1
  BY PipeTyped DEF Stages
<1>2. pipe[d][k] \in Seq(Chunk) /\ pipe[d][k] # <<>> /\ pipe[d][k + 1] \in Seq(Chunk)
  BY <1>1 DEF Line, Waiting
<1>3. First(d, k) \in Chunk /\ First(d, k) = pipe[d][k][1]
  BY <1>2, TailOfChunks DEF First
<1>4. Passed(d, k)[d][k] = Tail(pipe[d][k])
  BY <1>1 DEF Passed, Line
<1>5. Passed(d, k)[d][k + 1] = Append(pipe[d][k + 1], First(d, k))
  BY <1>1 DEF Passed, Line
<1>6. Tail(pipe[d][k]) \in Seq(Chunk) /\ Append(pipe[d][k + 1], First(d, k)) \in Seq(Chunk)
  BY <1>2, <1>3, TailOfChunks, AppendToChunks
<1>7. Passed(d, k) \in Line
  BY <1>1, <1>6 DEF Passed, Line
<1>8. \A e \in Directions, l \in Stages :
            e # d \/ l \notin {k, k + 1} => Passed(d, k)[e][l] = pipe[e][l]
  BY <1>1 DEF Passed, Line
<1>9. /\ 1 \in 1..Len(pipe[d][k])
      /\ Len(Passed(d, k)[d][k]) = Len(pipe[d][k]) - 1
      /\ \A i \in 1..Len(Passed(d, k)[d][k]) : Passed(d, k)[d][k][i] = pipe[d][k][i + 1]
  BY <1>2, <1>4, TailOfChunks
<1>10. /\ Len(Passed(d, k)[d][k + 1]) = Len(pipe[d][k + 1]) + 1
       /\ \A i \in 1..Len(pipe[d][k + 1]) : Passed(d, k)[d][k + 1][i] = pipe[d][k + 1][i]
       /\ Passed(d, k)[d][k + 1][Len(pipe[d][k + 1]) + 1] = pipe[d][k][1]
  BY <1>2, <1>3, <1>5, AppendToChunks
<1> QED
  BY <1>3, <1>7, <1>8, <1>9, <1>10

Added(d, c) == [pipe EXCEPT ![d][1] = Append(@, c)]

LEMMA AddedShape ==
  ASSUME TypeOK, NEW d \in Directions, NEW c \in Chunk
  PROVE  /\ Added(d, c) \in Line
         /\ \A e \in Directions, l \in Stages : e # d \/ l # 1 => Added(d, c)[e][l] = pipe[e][l]
         /\ Len(Added(d, c)[d][1]) = Len(pipe[d][1]) + 1
         /\ \A i \in 1..Len(pipe[d][1]) : Added(d, c)[d][1][i] = pipe[d][1][i]
         /\ Added(d, c)[d][1][Len(pipe[d][1]) + 1] = c
<1>1. pipe \in Line /\ 1 \in Stages
  BY PipeTyped DEF Stages
<1>2. pipe[d][1] \in Seq(Chunk)
  BY <1>1 DEF Line
<1>3. Added(d, c)[d][1] = Append(pipe[d][1], c)
  BY <1>1 DEF Added, Line
<1>4. Append(pipe[d][1], c) \in Seq(Chunk)
  BY <1>2, AppendToChunks
<1>5. Added(d, c) \in Line
  BY <1>1, <1>4 DEF Added, Line
<1>6. \A e \in Directions, l \in Stages : e # d \/ l # 1 => Added(d, c)[e][l] = pipe[e][l]
  BY <1>1 DEF Added, Line
<1> QED
  BY <1>2, <1>3, <1>5, <1>6, AppendToChunks

LEMMA SmearedShape ==
  ASSUME NEW q \in Seq(Chunk), NEW g, NEW n \in Nat \ {0}
  PROVE  /\ Smeared(q, g, n) \in Seq(Chunk) /\ Len(Smeared(q, g, n)) = Len(q)
         /\ \A i \in 1..Len(q) :
                /\ Smeared(q, g, n)[i].src = q[i].src /\ Smeared(q, g, n)[i].n = q[i].n
                /\ Smeared(q, g, n)[i].data = IF q[i].src = g THEN n ELSE q[i].data
<1>1. Len(q) \in Nat /\ \A i \in 1..Len(q) : q[i] \in Chunk
  BY LenProperties, ElementOfSeq
<1>2. \A i \in 1..Len(q) : Smeared(q, g, n)[i] =
          IF q[i].src = g THEN [q[i] EXCEPT !.data = n] ELSE q[i]
  BY <1>1 DEF Smeared
<1>3. \A i \in 1..Len(q) : Smeared(q, g, n)[i] \in Chunk
  BY <1>1, <1>2 DEF Chunk
<1>4. Smeared(q, g, n) \in Seq(Chunk) /\ Len(Smeared(q, g, n)) = Len(q)
  BY <1>1, <1>3, IsASeq, LenProperties DEF Smeared
<1> QED
  BY <1>1, <1>2, <1>4 DEF Chunk

(* What Read(g) makes of the pipe.                                          *)
Read1(g, n) ==
  [pipe EXCEPT !["fwd"][1] = Smeared(@, g, n), !["fwd"][2] = Smeared(@, g, n)]

LEMMA Read1Shape ==
  ASSUME TypeOK, NEW g, NEW n \in Nat \ {0}
  PROVE  /\ Read1(g, n) \in Line
         /\ \A e \in Directions, l \in Stages :
                /\ Len(Read1(g, n)[e][l]) = Len(pipe[e][l])
                /\ e # "fwd" \/ l \notin {1, 2} => Read1(g, n)[e][l] = pipe[e][l]
         /\ \A l \in {1, 2} : \A i \in 1..Len(pipe["fwd"][l]) :
                /\ Read1(g, n)["fwd"][l][i].src = pipe["fwd"][l][i].src
                /\ Read1(g, n)["fwd"][l][i].n = pipe["fwd"][l][i].n
                /\ Read1(g, n)["fwd"][l][i].data =
                     IF pipe["fwd"][l][i].src = g THEN n ELSE pipe["fwd"][l][i].data
<1>1. pipe \in Line /\ 1 \in Stages /\ 2 \in Stages /\ "fwd" \in Directions
  BY PipeTyped DEF Stages, Directions
<1>2. \A l \in {1, 2} : pipe["fwd"][l] \in Seq(Chunk)
  BY <1>1 DEF Line
<1>3. \A l \in {1, 2} : Read1(g, n)["fwd"][l] = Smeared(pipe["fwd"][l], g, n)
  BY <1>1 DEF Read1, Line
<1>4. \A l \in {1, 2} : Smeared(pipe["fwd"][l], g, n) \in Seq(Chunk)
  BY <1>2, SmearedShape
<1>5. Read1(g, n) \in Line
  BY <1>1, <1>4 DEF Read1, Line
<1>6. \A e \in Directions, l \in Stages :
          e # "fwd" \/ l \notin {1, 2} => Read1(g, n)[e][l] = pipe[e][l]
  BY <1>1 DEF Read1, Line
<1>7. ASSUME NEW l \in {1, 2}
      PROVE  /\ Len(Read1(g, n)["fwd"][l]) = Len(pipe["fwd"][l])
             /\ \A i \in 1..Len(pipe["fwd"][l]) :
                  /\ Read1(g, n)["fwd"][l][i].src = pipe["fwd"][l][i].src
                  /\ Read1(g, n)["fwd"][l][i].n = pipe["fwd"][l][i].n
                  /\ Read1(g, n)["fwd"][l][i].data =
                       IF pipe["fwd"][l][i].src = g THEN n ELSE pipe["fwd"][l][i].data
  <2>1. PICK q \in Seq(Chunk) : q = pipe["fwd"][l]
    BY <1>2
  <2>2. Read1(g, n)["fwd"][l] = Smeared(q, g, n)
    BY <1>3, <2>1
  <2>3. /\ Len(Smeared(q, g, n)) = Len(q)
        /\ \A i \in 1..Len(q) :
             /\ Smeared(q, g, n)[i].src = q[i].src /\ Smeared(q, g, n)[i].n = q[i].n
             /\ Smeared(q, g, n)[i].data = IF q[i].src = g THEN n ELSE q[i].data
    BY SmearedShape
  <2> QED
    BY <2>1, <2>2, <2>3
<1>8. \A e \in Directions, l \in Stages : Len(Read1(g, n)[e][l]) = Len(pipe[e][l])
  BY <1>6, <1>7
<1> QED
  BY <1>5, <1>6, <1>7, <1>8

-----------------------------------------------------------------------------
(***************************************************************************)
(* Types.                                                                  *)
(***************************************************************************)
(* The conjuncts of TypeOK by the part of the state they are about.         *)
PipeOK ==
  /\ pipe \in Line
  /\ \A d \in Directions, k \in Stages : Len(pipe[d][k]) <= Capacity(k)

HistoryOK ==
  /\ held \in [Sources -> Nat]
  /\ sent \in [Sources -> Nat] /\ last \in [Sources -> Nat] /\ data \in [Sources -> Nat]
  /\ lost \in [Sources -> SUBSET Nat]

EndsOK ==
  /\ local \in [Locals -> {"new", "open", "closed"}]
  /\ rcv \in Locals \cup {None}
  /\ proxied \in BOOLEAN /\ routed \in BOOLEAN
  /\ cur \in Targets \cup {None} /\ to \in Targets \cup {None}
  /\ target \in [Targets -> {"new", "open", "shut", "closed"}]
  /\ readers \in SUBSET Targets

LEMMA TypeParts ==
  /\ TypeOK <=> PipeOK /\ EndsOK /\ HistoryOK
  /\ TypeOK' <=> PipeOK' /\ EndsOK' /\ HistoryOK'
BY DEF TypeOK, PipeOK, EndsOK, HistoryOK, Line

LEMMA CapacityIsNat == \A k \in Stages : Capacity(k) \in Nat \ {0}
BY TunnelAssumption DEF Capacity, Stages

LEMMA TakenOK ==
  ASSUME TypeOK, NEW d \in Directions, NEW k \in Stages, Waiting(d, k), pipe' = Taken(d, k)
  PROVE  PipeOK'
<1>1. \A e \in Directions, l \in Stages : Len(pipe[e][l]) \in Nat /\ Len(pipe[e][l]) <= Capacity(l)
  BY PipeTyped, LenProperties DEF TypeOK, Line
<1>2. ASSUME NEW e \in Directions, NEW l \in Stages PROVE Len(pipe'[e][l]) <= Capacity(l)
  <2>1. Len(pipe'[e][l]) \in {Len(pipe[e][l]), Len(pipe[e][l]) - 1}
    BY TakenShape
  <2> QED
    BY <1>1, <2>1, CapacityIsNat
<1> QED
  BY <1>2, TakenShape DEF PipeOK, Capacity

LEMMA PassedOK ==
  ASSUME TypeOK, NEW d \in Directions, NEW k \in 1..5, Waiting(d, k), Room(d, k + 1),
         pipe' = Passed(d, k)
  PROVE  PipeOK'
<1>1. \A e \in Directions, l \in Stages : Len(pipe[e][l]) \in Nat /\ Len(pipe[e][l]) <= Capacity(l)
  BY PipeTyped, LenProperties DEF TypeOK, Line
<1>2. ASSUME NEW e \in Directions, NEW l \in Stages PROVE Len(pipe'[e][l]) <= Capacity(l)
  <2>1. CASE e = d /\ l = k
    <3>1. Len(pipe'[d][k]) = Len(pipe[d][k]) - 1
      BY PassedShape
    <3>2. k \in Stages
      BY DEF Stages
    <3> QED
      BY <1>1, <2>1, <3>1, <3>2, CapacityIsNat
  <2>2. CASE e = d /\ l = k + 1
    <3>1. Len(pipe'[d][k + 1]) = Len(pipe[d][k + 1]) + 1
      BY PassedShape
    <3>2. k + 1 \in Stages
      BY DEF Stages
    <3>3. Len(pipe[d][k + 1]) \in Nat /\ Capacity(k + 1) \in Nat
      BY <1>1, <3>2, CapacityIsNat
    <3>4. Len(pipe[d][k + 1]) < Capacity(k + 1)
      BY DEF Room
    <3> QED
      BY <2>2, <3>1, <3>3, <3>4
  <2>3. CASE e # d \/ l \notin {k, k + 1}
    BY <1>1, <2>3, PassedShape
  <2> QED
    BY <2>1, <2>2, <2>3
<1> QED
  BY <1>2, PassedShape DEF PipeOK, Capacity

LEMMA AddedOK ==
  ASSUME TypeOK, NEW d \in Directions, NEW c \in Chunk, Room(d, 1), pipe' = Added(d, c)
  PROVE  PipeOK'
<1>1. \A e \in Directions, l \in Stages : Len(pipe[e][l]) \in Nat /\ Len(pipe[e][l]) <= Capacity(l)
  BY PipeTyped, LenProperties DEF TypeOK, Line
<1>2. ASSUME NEW e \in Directions, NEW l \in Stages PROVE Len(pipe'[e][l]) <= Capacity(l)
  <2>1. CASE e = d /\ l = 1
    BY <1>1, <2>1, AddedShape, CapacityIsNat DEF Room
  <2>2. CASE e # d \/ l # 1
    BY <1>1, <2>2, AddedShape
  <2> QED
    BY <2>1, <2>2
<1> QED
  BY <1>2, AddedShape DEF PipeOK, Capacity

LEMMA Read1OK ==
  ASSUME TypeOK, NEW g, NEW n \in Nat \ {0}, pipe' = Read1(g, n)
  PROVE  PipeOK'
BY Read1Shape DEF TypeOK, PipeOK, Capacity

LEMMA SamePipeOK == TypeOK /\ UNCHANGED pipe => PipeOK'
BY TypeParts DEF PipeOK, Capacity, Room

(* Forward writes what the read loop has in hand.                           *)
Handed == to # None => Waiting("fwd", 6)

LEMMA DroppedOK ==
  ASSUME TypeOK, NEW d \in Directions, NEW k \in Stages, Waiting(d, k), Dropped(d, k),
         UNCHANGED <<held, sent, last, data>>
  PROVE  PipeOK' /\ HistoryOK'
<1>1. PipeOK'
  BY TakenOK DEF Dropped
<1>2. First(d, k).src \in Sources /\ First(d, k).n \in Nat
  BY TakenShape DEF Chunk
<1> QED
  BY <1>1, <1>2, TypeParts DEF Dropped, HistoryOK

LEMMA ArrivedOK ==
  ASSUME TypeOK, NEW d \in Directions, NEW k \in Stages, Waiting(d, k), Arrived(d, k),
         UNCHANGED <<held, sent, lost>>
  PROVE  PipeOK' /\ HistoryOK'
<1>1. PipeOK'
  BY TakenOK DEF Arrived
<1>2. First(d, k).src \in Sources /\ First(d, k).n \in Nat /\ First(d, k).data \in Nat
  BY TakenShape DEF Chunk
<1> QED
  BY <1>1, <1>2, TypeParts DEF Arrived, HistoryOK

LEMMA SameHistoryOK == TypeOK /\ UNCHANGED <<held, history>> => HistoryOK'
BY TypeParts DEF HistoryOK, history

LEMMA RemoveOK == TypeOK /\ RemoveConnection => cur' = None /\ target' \in
                    [Targets -> {"new", "open", "shut", "closed"}]
BY DEF RemoveConnection, TypeOK

(* The chunk in hand at either end.                                         *)
LEMMA InHandTyped ==
  ASSUME TypeOK, NEW s \in Sources, held[s] # 0
  PROVE  InHand(s) \in Chunk
BY DEF InHand, Chunk, TypeOK

LEMMA SourceSets == Locals \subseteq Sources /\ Targets \subseteq Sources
BY DEF Sources

LEMMA TypeInvariant == Spec => [](TypeOK /\ Handed)
<1>1. Init => TypeOK /\ Handed
  <2> SUFFICES ASSUME Init
               PROVE  TypeOK /\ Handed
    OBVIOUS
  <2>1. <<>> \in Seq(Chunk) /\ Len(<<>>) = 0
    BY EmptySeq
  <2>2. \A d \in Directions, k \in Stages : pipe[d][k] = <<>>
    BY DEF Init
  <2>3. PipeOK
    BY <2>1, <2>2, CapacityIsNat DEF Init, PipeOK, Line
  <2> QED
    BY <2>3, TypeParts DEF Init, HistoryOK, EndsOK, Handed
<1>2. TypeOK /\ Handed /\ [Next]_vars => (TypeOK /\ Handed)'
  <2> SUFFICES ASSUME TypeOK, Handed, [Next]_vars
               PROVE  TypeOK' /\ Handed'
    OBVIOUS
  <2> USE DEF pipeVars, clientVars, serverVars, proxyVars, history
  <2>0. EndsOK /\ "fwd" \in Directions /\ "bwd" \in Directions /\ {3, 6} \subseteq Stages
        /\ 3 \in 1..5
    BY TypeParts DEF Directions, Stages
  <2>1. ASSUME UNCHANGED vars PROVE TypeOK' /\ Handed'
    BY <2>1, SamePipeOK, SameHistoryOK, TypeParts DEF vars, EndsOK, Handed, Waiting
  <2>2. ASSUME NEW d \in Directions, NEW k \in {1, 2, 4, 5}, Move(d, k)
        PROVE  TypeOK' /\ Handed'
    <3>1. k \in 1..5
      OBVIOUS
    <3>2. PipeOK' /\ HistoryOK'
      BY <2>2, <3>1, PassedOK, SameHistoryOK DEF Move
    <3>3. to # None => pipe'["fwd"][6] # <<>>
      <4>1. to # None /\ d = "fwd" => k # 5
        BY <2>2 DEF Handed, Move, Room, Waiting, Capacity, TypeOK
      <4>2. d # "fwd" \/ k # 5 => pipe'["fwd"][6] = pipe["fwd"][6]
        <5>1. \A e \in Directions, l \in Stages :
                  e # d \/ l \notin {k, k + 1} => pipe'[e][l] = pipe[e][l]
          BY <2>2, <3>1, PassedShape DEF Move
        <5>2. d # "fwd" \/ k # 5 => "fwd" # d \/ 6 \notin {k, k + 1}
          BY <3>1
        <5> QED
          BY <2>0, <5>1, <5>2
      <4> QED
        BY <4>1, <4>2 DEF Handed, Waiting
    <3> QED
      BY <2>0, <2>2, <3>2, <3>3, TypeParts DEF Move, EndsOK, Handed, Waiting
  <2>3. ASSUME Lookup \/ RegisterProxy \/ CleanupStale \/ Forward PROVE TypeOK' /\ Handed'
    BY <2>0, <2>3, SamePipeOK, SameHistoryOK, TypeParts
       DEF Lookup, RegisterProxy, CleanupStale, Forward, EndsOK, Handed, Waiting
  <2>4. ASSUME DeliverFails \/ DeliverResponse PROVE TypeOK' /\ Handed'
    <3>1. PipeOK' /\ HistoryOK'
      BY <2>0, <2>4, DroppedOK, ArrivedOK DEF DeliverFails, DeliverResponse
    <3>2. pipe'["fwd"][6] = pipe["fwd"][6]
      BY <2>0, <2>4, TakenShape DEF DeliverFails, DeliverResponse, Dropped, Arrived
    <3> QED
      BY <2>0, <2>4, <3>1, <3>2, TypeParts DEF DeliverFails, DeliverResponse, EndsOK, Handed, Waiting
  <2>5. ASSUME NEW d \in Directions, Waiting(d, 3), Room(d, 4), UNCHANGED <<held, sent, last, data>>,
               (pipe' = Passed(d, 3) /\ UNCHANGED lost) \/ Dropped(d, 3)
        PROVE  PipeOK' /\ HistoryOK' /\ pipe'["fwd"][6] = pipe["fwd"][6]
    <3>1. CASE pipe' = Passed(d, 3) /\ UNCHANGED lost
      BY <2>0, <2>5, <3>1, PassedOK, PassedShape, SameHistoryOK
    <3>2. CASE Dropped(d, 3)
      <4>1. PipeOK' /\ HistoryOK'
        BY <2>0, <2>5, <3>2, DroppedOK
      <4>2. pipe' = Taken(d, 3)
        BY <3>2 DEF Dropped
      <4> QED
        BY <2>0, <2>5, <4>1, <4>2, TakenShape
    <3> QED
      BY <2>5, <3>1, <3>2
  <2>6. ASSUME RouteFromClient \/ RouteFromProxy PROVE TypeOK' /\ Handed'
    <3>1. PipeOK' /\ HistoryOK' /\ pipe'["fwd"][6] = pipe["fwd"][6]
      BY <2>0, <2>5, <2>6 DEF RouteFromClient, RouteFromProxy
    <3> QED
      BY <2>0, <2>6, <3>1, TypeParts DEF RouteFromClient, RouteFromProxy, EndsOK, Handed, Waiting
  <2>7. ASSUME DialFails \/ Write \/ WriteLost \/ WriteFails PROVE TypeOK' /\ Handed'
    <3>1. PipeOK' /\ HistoryOK'
      BY <2>0, <2>7, DroppedOK, ArrivedOK DEF DialFails, Write, WriteLost, WriteFails, Handed
    <3>2. to' = None
      BY <2>7 DEF DialFails, Write, WriteLost, WriteFails
    <3> QED
      BY <2>0, <2>7, <3>1, <3>2, RemoveOK, TypeParts
         DEF DialFails, Write, WriteLost, WriteFails, EndsOK, Handed
  <2>8. ASSUME NEW g \in Locals, Connect(g) \/ Close(g) PROVE TypeOK' /\ Handed'
    BY <2>0, <2>8, SamePipeOK, SameHistoryOK, TypeParts DEF Connect, Close, EndsOK, Handed, Waiting
  <2>9. ASSUME NEW g \in Locals, Read(g) PROVE TypeOK' /\ Handed'
    <3> DEFINE n == sent[g] + 1
    <3>0. g \in Sources /\ n \in Nat \ {0}
      <4>1. g \in Sources /\ sent \in [Sources -> Nat]
        BY SourceSets, TypeParts DEF HistoryOK
      <4> QED
        BY <4>1
    <3>a. pipe' = Read1(g, n)
      BY <2>9, Zenon DEF Read, Read1
    <3>1. n \in Nat \ {0} /\ pipe' = Read1(g, n) /\ g \in Sources
      BY <3>0, <3>a
    <3>2. PipeOK'
      BY <3>1, Read1OK
    <3>3. HistoryOK'
      BY <2>9, <3>1, TypeParts DEF Read, HistoryOK
    <3>4. pipe'["fwd"][6] = pipe["fwd"][6]
      BY <2>0, <3>1, Read1Shape
    <3> QED
      BY <2>0, <2>9, <3>2, <3>3, <3>4, TypeParts DEF Read, EndsOK, Handed, Waiting
  <2>10. ASSUME NEW g \in Locals, ServerWriter(g) PROVE TypeOK' /\ Handed'
    <3>1. InHand(g) \in Chunk /\ g \in Sources
      BY <2>10, InHandTyped, SourceSets DEF ServerWriter
    <3>2. PipeOK' /\ pipe'["fwd"][6] = pipe["fwd"][6]
      <4>1. CASE Room("fwd", 1)
        <5>1. pipe' = Added("fwd", InHand(g))
          BY <2>10, <4>1 DEF ServerWriter, Added
        <5> QED
          BY <2>0, <3>1, <4>1, <5>1, AddedOK, AddedShape
      <4>2. CASE ~Room("fwd", 1)
        BY <2>10, <4>2, SamePipeOK DEF ServerWriter
      <4> QED
        BY <4>1, <4>2
    <3>3. HistoryOK'
      BY <2>10, <3>1, TypeParts DEF ServerWriter, HistoryOK
    <3> QED
      BY <2>0, <2>10, <3>2, <3>3, TypeParts DEF ServerWriter, EndsOK, Handed, Waiting
  <2>11. ASSUME NEW t \in Targets, Dial(t) PROVE TypeOK' /\ Handed'
    BY <2>0, <2>11, SamePipeOK, SameHistoryOK, TypeParts DEF Dial, EndsOK, Handed, Waiting
  <2>12. ASSUME NEW t \in Targets, TargetRead(t) PROVE TypeOK' /\ Handed'
    <3>1. HistoryOK'
      BY <2>12, SourceSets, TypeParts DEF TargetRead, HistoryOK
    <3> QED
      BY <2>0, <2>12, <3>1, SamePipeOK, TypeParts DEF TargetRead, EndsOK, Handed, Waiting
  <2>13. ASSUME NEW t \in Targets, SendResponse(t) PROVE TypeOK' /\ Handed'
    <3>1. InHand(t) \in Chunk /\ t \in Sources
      BY <2>13, InHandTyped, SourceSets DEF SendResponse
    <3>2. pipe' = Added("bwd", InHand(t)) /\ Room("bwd", 1)
      BY <2>13 DEF SendResponse, Added
    <3>3. PipeOK' /\ pipe'["fwd"][6] = pipe["fwd"][6]
      BY <2>0, <3>1, <3>2, AddedOK, AddedShape
    <3>4. HistoryOK'
      BY <2>13, <3>1, TypeParts DEF SendResponse, HistoryOK
    <3> QED
      BY <2>0, <2>13, <3>3, <3>4, TypeParts DEF SendResponse, EndsOK, Handed, Waiting
  <2>14. ASSUME NEW t \in Targets, TargetCloses(t) \/ ReaderEnds(t) PROVE TypeOK' /\ Handed'
    BY <2>0, <2>14, SamePipeOK, SameHistoryOK, RemoveOK, TypeParts
       DEF TargetCloses, ReaderEnds, EndsOK, Handed, Waiting
  <2> QED
    BY <2>1, <2>2, <2>3, <2>4, <2>6, <2>7, <2>8, <2>9, <2>10, <2>11, <2>12, <2>13, <2>14
       DEF Next, Loops
<1> QED
  BY <1>1, <1>2, PTL DEF Spec

(* No channel and no stream holds more than its capacity, and what is under *)
(* way is a chunk of some connection, whatever comes and goes at both ends. *)
THEOREM TypeCorrect == Spec => []TypeOK
BY TypeInvariant, PTL

-----------------------------------------------------------------------------
(***************************************************************************)
(* The chunks under way.                                                   *)
(***************************************************************************)
Ends(d) == IF d = "fwd" THEN Locals ELSE Targets

(* The one at index i of stage k comes out before that at j of l.           *)
Ahead(k, i, l, j) == k > l \/ (k = l /\ i < j)

(* A chunk in the pipe has not arrived and was not given up, and is newer   *)
(* than all that has arrived of its source and older than what is in hand.  *)
Fit(d, c) ==
  /\ c.src \in Ends(d)
  /\ last[c.src] < c.n /\ c.n <= sent[c.src] /\ c.n \notin lost[c.src]
  /\ c.n <= c.data /\ c.data <= sent[c.src] /\ data[c.src] <= c.data
  /\ d = "bwd" => c.data = c.n
  /\ held[c.src] # 0 => c.n < held[c.src]

UnderWay ==
  \A d \in Directions, k \in Stages : \A i \in 1..Len(pipe[d][k]) : Fit(d, pipe[d][k][i])

(* Chunks of one source come out in the order in which they were sent.      *)
Ordered ==
  \A d \in Directions, k \in Stages, l \in Stages :
    \A i \in 1..Len(pipe[d][k]), j \in 1..Len(pipe[d][l]) :
      Ahead(k, i, l, j) /\ pipe[d][k][i].src = pipe[d][l][j].src =>
        pipe[d][k][i].n < pipe[d][l][j].n /\ pipe[d][k][i].data <= pipe[d][l][j].data

HeldFit ==
  \A s \in Sources : held[s] # 0 =>
    held[s] = sent[s] /\ last[s] < held[s] /\ held[s] \notin lost[s]

Bounded ==
  \A s \in Sources :
    last[s] <= sent[s] /\ data[s] <= sent[s] /\ \A n \in lost[s] : n <= sent[s]

InPipe(p, s, n) ==
  \E d \in Directions, k \in Stages : \E i \in 1..Len(p[d][k]) :
    p[d][k][i].src = s /\ p[d][k][i].n = n

(* A chunk that has not arrived, nor been passed over, is somewhere.        *)
Somewhere ==
  \A s \in Sources : \A n \in (last[s] + 1)..sent[s] :
    n \in lost[s] \/ n = held[s] \/ InPipe(pipe, s, n)

FlowInv == UnderWay /\ Ordered /\ HeldFit /\ Bounded /\ Somewhere

(* The chunks of q are some of those of p, in the same order.               *)
Among(q, p) ==
  \A d \in Directions, k \in Stages : \A i \in 1..Len(q[d][k]) :
    \E l \in Stages : \E j \in 1..Len(p[d][l]) : q[d][k][i] = p[d][l][j]

SameOrder(q, p) ==
  \A d \in Directions, k \in Stages, l \in Stages :
    \A i \in 1..Len(q[d][k]), j \in 1..Len(q[d][l]) : Ahead(k, i, l, j) =>
      \E ko \in Stages, lo \in Stages :
        \E io \in 1..Len(p[d][ko]), jo \in 1..Len(p[d][lo]) :
          /\ Ahead(ko, io, lo, jo)
          /\ q[d][k][i] = p[d][ko][io] /\ q[d][l][j] = p[d][lo][jo]

Within(q, p) == Among(q, p) /\ SameOrder(q, p)

LEMMA TakenWithin ==
  ASSUME TypeOK, NEW d \in Directions, NEW k \in Stages, Waiting(d, k)
  PROVE  /\ Within(Taken(d, k), pipe)
         /\ \A s, n : InPipe(pipe, s, n) =>
                InPipe(Taken(d, k), s, n) \/ (s = First(d, k).src /\ n = First(d, k).n)
<1> DEFINE q == Taken(d, k)
           first == First(d, k)
           old(e, l, i) == IF e = d /\ l = k THEN i + 1 ELSE i
<1>1. \A e \in Directions, l \in Stages : Len(pipe[e][l]) \in Nat
  BY PipeTyped, LenProperties DEF Line
<1>2. /\ Len(q[d][k]) = Len(pipe[d][k]) - 1
      /\ \A i \in 1..Len(q[d][k]) : q[d][k][i] = pipe[d][k][i + 1]
      /\ \A e \in Directions, l \in Stages : e # d \/ l # k => q[e][l] = pipe[e][l]
      /\ first = pipe[d][k][1]
  BY TakenShape
<1> HIDE DEF q, first
<1>3. ASSUME NEW e \in Directions, NEW l \in Stages, NEW i \in 1..Len(q[e][l])
      PROVE  old(e, l, i) \in 1..Len(pipe[e][l]) /\ q[e][l][i] = pipe[e][l][old(e, l, i)]
  <2>1. CASE e = d /\ l = k
    <3>1. i + 1 \in 1..Len(pipe[d][k])
      BY <1>1, <1>2, <2>1
    <3> QED
      BY <1>2, <2>1, <3>1
  <2>2. CASE e # d \/ l # k
    BY <1>2, <2>2
  <2> QED
    BY <2>1, <2>2
<1>4. ASSUME NEW e \in Directions, NEW l \in Stages, NEW m \in Stages,
             NEW i \in 1..Len(q[e][l]), NEW j \in 1..Len(q[e][m]), Ahead(l, i, m, j)
      PROVE  Ahead(l, old(e, l, i), m, old(e, m, j))
  BY <1>4 DEF Ahead
<1>5. Within(q, pipe)
  <2> HIDE DEF old
  <2>1. ASSUME NEW e \in Directions, NEW l \in Stages, NEW i \in 1..Len(q[e][l])
        PROVE  \E m \in Stages : \E j \in 1..Len(pipe[e][m]) : q[e][l][i] = pipe[e][m][j]
    BY <1>3
  <2>2. ASSUME NEW e \in Directions, NEW l \in Stages, NEW m \in Stages,
               NEW i \in 1..Len(q[e][l]), NEW j \in 1..Len(q[e][m]), Ahead(l, i, m, j)
        PROVE  \E lo \in Stages, mo \in Stages :
                 \E io \in 1..Len(pipe[e][lo]), jo \in 1..Len(pipe[e][mo]) :
                   /\ Ahead(lo, io, mo, jo)
                   /\ q[e][l][i] = pipe[e][lo][io] /\ q[e][m][j] = pipe[e][mo][jo]
    <3>1. Ahead(l, old(e, l, i), m, old(e, m, j))
      BY <1>4, <2>2
    <3>2. /\ old(e, l, i) \in 1..Len(pipe[e][l]) /\ q[e][l][i] = pipe[e][l][old(e, l, i)]
          /\ old(e, m, j) \in 1..Len(pipe[e][m]) /\ q[e][m][j] = pipe[e][m][old(e, m, j)]
      BY <1>3
    <3> QED
      BY <3>1, <3>2
  <2> QED
    BY <2>1, <2>2 DEF Within, Among, SameOrder
<1>6. ASSUME NEW s, NEW n, InPipe(pipe, s, n)
      PROVE  InPipe(q, s, n) \/ (s = first.src /\ n = first.n)
  <2>1. PICK e \in Directions, l \in Stages : \E i \in 1..Len(pipe[e][l]) :
            pipe[e][l][i].src = s /\ pipe[e][l][i].n = n
    BY <1>6 DEF InPipe
  <2>2. PICK i \in 1..Len(pipe[e][l]) : pipe[e][l][i].src = s /\ pipe[e][l][i].n = n
    BY <2>1
  <2>3. CASE e = d /\ l = k /\ i = 1
    BY <1>2, <2>2, <2>3
  <2>4. CASE e = d /\ l = k /\ i # 1
    <3>1. i - 1 \in 1..Len(q[d][k]) /\ (i - 1) + 1 = i
      BY <1>1, <1>2, <2>4
    <3>2. q[d][k][i - 1] = pipe[d][k][i]
      BY <1>2, <3>1
    <3> QED
      BY <2>2, <2>4, <3>1, <3>2 DEF InPipe
  <2>5. CASE e # d \/ l # k
    BY <1>2, <2>2, <2>5 DEF InPipe
  <2> QED
    BY <2>3, <2>4, <2>5
<1> QED
  BY <1>5, <1>6 DEF q, first

LEMMA PassedWithin ==
  ASSUME TypeOK, NEW d \in Directions, NEW k \in 1..5, Waiting(d, k)
  PROVE  /\ Within(Passed(d, k), pipe)
         /\ \A s, n : InPipe(pipe, s, n) => InPipe(Passed(d, k), s, n)
<1> DEFINE q == Passed(d, k)
           end == Len(pipe[d][k + 1]) + 1
           stage(e, l, i) == IF e = d /\ l = k + 1 /\ i = end THEN k ELSE l
           old(e, l, i) == IF e = d /\ l = k THEN i + 1
                           ELSE IF e = d /\ l = k + 1 /\ i = end THEN 1 ELSE i
<1>0. k \in Stages /\ k + 1 \in Stages /\ k \in Nat
  BY DEF Stages
<1>1. \A e \in Directions, l \in Stages : Len(pipe[e][l]) \in Nat
  BY PipeTyped, LenProperties DEF Line
<1>2. /\ Len(q[d][k]) = Len(pipe[d][k]) - 1
      /\ \A i \in 1..Len(q[d][k]) : q[d][k][i] = pipe[d][k][i + 1]
      /\ Len(q[d][k + 1]) = end
      /\ \A i \in 1..Len(pipe[d][k + 1]) : q[d][k + 1][i] = pipe[d][k + 1][i]
      /\ q[d][k + 1][end] = pipe[d][k][1]
      /\ \A e \in Directions, l \in Stages : e # d \/ l \notin {k, k + 1} => q[e][l] = pipe[e][l]
      /\ 1 \in 1..Len(pipe[d][k])
  BY PassedShape
<1>3. end \in Nat \ {0} /\ \A i \in 1..end : i = end \/ i \in 1..Len(pipe[d][k + 1])
  BY <1>0, <1>1
<1> HIDE DEF q, end
<1>4. ASSUME NEW e \in Directions, NEW l \in Stages, NEW i \in 1..Len(q[e][l])
      PROVE  /\ stage(e, l, i) \in Stages
             /\ old(e, l, i) \in 1..Len(pipe[e][stage(e, l, i)])
             /\ q[e][l][i] = pipe[e][stage(e, l, i)][old(e, l, i)]
  <2>1. CASE e = d /\ l = k
    <3>1. i \in 1..Len(q[d][k]) /\ Len(pipe[d][k]) \in Nat
      BY <1>0, <1>1, <2>1
    <3>2. Len(q[d][k]) = Len(pipe[d][k]) - 1
      BY <1>2
    <3>3. i + 1 \in 1..Len(pipe[d][k])
      BY <3>1, <3>2
    <3>4. q[d][k][i] = pipe[d][k][i + 1]
      BY <1>2, <3>1
    <3> QED
      BY <1>0, <2>1, <3>3, <3>4
  <2>2. CASE e = d /\ l = k + 1 /\ i = end
    BY <1>0, <1>2, <2>2
  <2>3. CASE e = d /\ l = k + 1 /\ i # end
    <3>1. i \in 1..Len(pipe[d][k + 1])
      BY <1>2, <1>3, <2>3
    <3> QED
      BY <1>0, <1>2, <2>3, <3>1
  <2>4. CASE e # d \/ l \notin {k, k + 1}
    BY <1>2, <2>4
  <2> QED
    BY <2>1, <2>2, <2>3, <2>4
<1>5. ASSUME NEW e \in Directions, NEW l \in Stages, NEW m \in Stages,
             NEW i \in 1..Len(q[e][l]), NEW j \in 1..Len(q[e][m]), Ahead(l, i, m, j)
      PROVE  Ahead(stage(e, l, i), old(e, l, i), stage(e, m, j), old(e, m, j))
  <2>1. i \in Int /\ j \in Int /\ l \in Int /\ m \in Int
    BY DEF Stages
  <2>2. e = d /\ m = k + 1 => j <= end
    BY <1>2, <1>3
  <2>3. CASE e = d /\ l = k + 1 /\ i = end
    <3>1. m # k + 1
      BY <1>3, <1>5, <2>1, <2>2, <2>3 DEF Ahead
    <3>2. stage(e, l, i) = k /\ old(e, l, i) = 1 /\ stage(e, m, j) = m
      BY <1>0, <2>3, <3>1
    <3>3. m = k => old(e, m, j) = j + 1 /\ j >= 1
      BY <2>3
    <3>4. m < k \/ m = k
      BY <1>0, <1>5, <2>1, <2>3, <3>1 DEF Ahead
    <3> QED
      BY <1>0, <2>1, <3>2, <3>3, <3>4 DEF Ahead
  <2>4. CASE e = d /\ m = k + 1 /\ j = end /\ ~(l = k + 1 /\ i = end)
    <3>1. stage(e, m, j) = k /\ stage(e, l, i) = l
      BY <2>4
    <3>2. l >= k + 1
      BY <1>0, <1>5, <2>1, <2>4 DEF Ahead
    <3> QED
      BY <1>0, <2>1, <3>1, <3>2 DEF Ahead
  <2>5. CASE ~(e = d /\ l = k + 1 /\ i = end) /\ ~(e = d /\ m = k + 1 /\ j = end)
    <3>1. stage(e, m, j) = m /\ stage(e, l, i) = l
      BY <2>5
    <3>2. l = m /\ i < j => old(e, l, i) < old(e, m, j)
      BY <2>1, <2>5
    <3> QED
      BY <1>5, <3>1, <3>2 DEF Ahead
  <2> QED
    BY <2>3, <2>4, <2>5
<1>6. Within(q, pipe)
  <2> HIDE DEF old, stage
  <2>1. ASSUME NEW e \in Directions, NEW l \in Stages, NEW i \in 1..Len(q[e][l])
        PROVE  \E m \in Stages : \E j \in 1..Len(pipe[e][m]) : q[e][l][i] = pipe[e][m][j]
    BY <1>4
  <2>2. ASSUME NEW e \in Directions, NEW l \in Stages, NEW m \in Stages,
               NEW i \in 1..Len(q[e][l]), NEW j \in 1..Len(q[e][m]), Ahead(l, i, m, j)
        PROVE  \E lo \in Stages, mo \in Stages :
                 \E io \in 1..Len(pipe[e][lo]), jo \in 1..Len(pipe[e][mo]) :
                   /\ Ahead(lo, io, mo, jo)
                   /\ q[e][l][i] = pipe[e][lo][io] /\ q[e][m][j] = pipe[e][mo][jo]
    <3>1. Ahead(stage(e, l, i), old(e, l, i), stage(e, m, j), old(e, m, j))
      BY <1>5, <2>2
    <3>2. /\ stage(e, l, i) \in Stages /\ stage(e, m, j) \in Stages
          /\ old(e, l, i) \in 1..Len(pipe[e][stage(e, l, i)])
          /\ q[e][l][i] = pipe[e][stage(e, l, i)][old(e, l, i)]
          /\ old(e, m, j) \in 1..Len(pipe[e][stage(e, m, j)])
          /\ q[e][m][j] = pipe[e][stage(e, m, j)][old(e, m, j)]
      BY <1>4
    <3> QED
      BY <3>1, <3>2
  <2> QED
    BY <2>1, <2>2 DEF Within, Among, SameOrder
<1>7. ASSUME NEW s, NEW n, InPipe(pipe, s, n)
      PROVE  InPipe(q, s, n)
  <2>1. PICK e \in Directions, l \in Stages : \E i \in 1..Len(pipe[e][l]) :
            pipe[e][l][i].src = s /\ pipe[e][l][i].n = n
    BY <1>7 DEF InPipe
  <2>2. PICK i \in 1..Len(pipe[e][l]) : pipe[e][l][i].src = s /\ pipe[e][l][i].n = n
    BY <2>1
  <2>3. CASE e = d /\ l = k /\ i = 1
    <3>1. end \in 1..Len(q[d][k + 1]) /\ q[d][k + 1][end] = pipe[d][k][1]
      BY <1>2, <1>3
    <3> QED
      BY <1>0, <2>2, <2>3, <3>1 DEF InPipe
  <2>4. CASE e = d /\ l = k /\ i # 1
    <3>1. i - 1 \in 1..Len(q[d][k]) /\ (i - 1) + 1 = i
      BY <1>0, <1>1, <1>2, <2>4
    <3>2. q[d][k][i - 1] = pipe[d][k][i]
      BY <1>2, <3>1
    <3> QED
      BY <2>2, <2>4, <3>1, <3>2 DEF InPipe
  <2>5. CASE e = d /\ l = k + 1
    <3>1. i \in 1..Len(q[d][k + 1])
      BY <1>0, <1>1, <1>2, <2>5 DEF end
    <3>2. q[d][k + 1][i] = pipe[d][k + 1][i]
      BY <1>2, <2>5
    <3> QED
      BY <1>0, <2>2, <2>5, <3>1, <3>2 DEF InPipe
  <2>6. CASE e # d \/ l \notin {k, k + 1}
    BY <1>2, <2>2, <2>6 DEF InPipe
  <2> QED
    BY <2>3, <2>4, <2>5, <2>6
<1> QED
  BY <1>6, <1>7 DEF q

LEMMA ChunkTyped ==
  ASSUME TypeOK, NEW d \in Directions, NEW k \in Stages, NEW i \in 1..Len(pipe[d][k])
  PROVE  pipe[d][k][i] \in Chunk
BY PipeTyped, ElementOfSeq DEF Line

LEMMA WithinOrdered ==
  ASSUME Ordered, Within(pipe', pipe)
  PROVE  Ordered'
<1> SUFFICES ASSUME NEW d \in Directions, NEW k \in Stages, NEW l \in Stages,
                    NEW i \in 1..Len(pipe'[d][k]), NEW j \in 1..Len(pipe'[d][l]),
                    Ahead(k, i, l, j), pipe'[d][k][i].src = pipe'[d][l][j].src
             PROVE  /\ pipe'[d][k][i].n < pipe'[d][l][j].n
                    /\ pipe'[d][k][i].data <= pipe'[d][l][j].data
  BY DEF Ordered, Ahead
<1>1. PICK ko \in Stages, lo \in Stages :
        \E io \in 1..Len(pipe[d][ko]), jo \in 1..Len(pipe[d][lo]) :
          /\ Ahead(ko, io, lo, jo)
          /\ pipe'[d][k][i] = pipe[d][ko][io] /\ pipe'[d][l][j] = pipe[d][lo][jo]
  BY DEF Within, SameOrder
<1>2. PICK io \in 1..Len(pipe[d][ko]), jo \in 1..Len(pipe[d][lo]) :
          /\ Ahead(ko, io, lo, jo)
          /\ pipe'[d][k][i] = pipe[d][ko][io] /\ pipe'[d][l][j] = pipe[d][lo][jo]
  BY <1>1
<1> QED
  BY <1>2 DEF Ordered

LEMMA SamePipe ==
  ASSUME UNCHANGED pipe
  PROVE  /\ Within(pipe', pipe)
         /\ \A s, n : InPipe(pipe, s, n) => InPipe(pipe', s, n)
<1>1. pipe' = pipe
  OBVIOUS
<1>2. Among(pipe, pipe) /\ SameOrder(pipe, pipe)
  BY DEF Among, SameOrder
<1> QED
  BY <1>1, <1>2 DEF Within

(* A step that moves chunks on.                                             *)
LEMMA QuietFlow ==
  ASSUME TypeOK, FlowInv, UNCHANGED <<held, history>>, Within(pipe', pipe),
         \A s, n : InPipe(pipe, s, n) => InPipe(pipe', s, n)
  PROVE  FlowInv'
<1>1. UnderWay'
  <2> SUFFICES ASSUME NEW d \in Directions, NEW k \in Stages, NEW i \in 1..Len(pipe'[d][k])
               PROVE  Fit(d, pipe[d][k][i])'
    BY DEF UnderWay, Fit
  <2>1. PICK l \in Stages : \E j \in 1..Len(pipe[d][l]) : pipe'[d][k][i] = pipe[d][l][j]
    BY DEF Within, Among
  <2>2. PICK j \in 1..Len(pipe[d][l]) : pipe'[d][k][i] = pipe[d][l][j]
    BY <2>1
  <2>3. Fit(d, pipe[d][l][j])
    BY DEF FlowInv, UnderWay
  <2> QED
    BY <2>2, <2>3 DEF Fit, history
<1>2. Ordered'
  BY WithinOrdered DEF FlowInv
<1>3. Somewhere'
  BY DEF FlowInv, Somewhere, history
<1> QED
  BY <1>1, <1>2, <1>3 DEF FlowInv, HeldFit, Bounded, history

LEMMA EndsApart == \A d \in Directions, e \in Directions : d # e => Ends(d) \cap Ends(e) = {}
BY TunnelAssumption DEF Ends, Directions

(* What is left when a chunk is taken from a stage is another chunk, and a  *)
(* later one if it was the chunk to come out next.                          *)
LEMMA RestDiffers ==
  ASSUME TypeOK, FlowInv, NEW d \in Directions, NEW k \in Stages, Waiting(d, k),
         NEW e \in Directions, NEW l \in Stages, NEW i \in 1..Len(Taken(d, k)[e][l])
  PROVE  LET c == Taken(d, k)[e][l][i]
             f == First(d, k)
         IN  /\ Fit(e, c)
             /\ c.src = f.src =>
                  /\ c.n # f.n
                  /\ k = 6 => f.n < c.n /\ f.data <= c.data
<1> DEFINE c == Taken(d, k)[e][l][i]
           f == First(d, k)
<1>1. f = pipe[d][k][1] /\ 1 \in 1..Len(pipe[d][k]) /\ Len(pipe[d][k]) \in Nat
  BY TakenShape, PipeTyped, LenProperties DEF Line
<1>2. Fit(d, f)
  BY <1>1 DEF FlowInv, UnderWay
<1>3. CASE e = d /\ l = k
  <2>1. i + 1 \in 1..Len(pipe[d][k]) /\ c = pipe[d][k][i + 1]
    <3>1. i \in 1..Len(Taken(d, k)[d][k]) /\ Len(Taken(d, k)[d][k]) = Len(pipe[d][k]) - 1
      BY <1>3, TakenShape
    <3>2. c = pipe[d][k][i + 1]
      BY <1>3, <3>1, TakenShape
    <3> QED
      BY <1>1, <3>1, <3>2
  <2>2. Ahead(k, 1, k, i + 1)
    BY <1>1, <2>1 DEF Ahead
  <2>3. Fit(d, c)
    BY <2>1 DEF FlowInv, UnderWay
  <2>4. c \in Chunk /\ f \in Chunk
    BY <1>1, <2>1, ChunkTyped
  <2>5. c.src = f.src => f.n < c.n /\ f.data <= c.data
    BY <1>1, <2>1, <2>2 DEF FlowInv, Ordered
  <2> QED
    BY <1>3, <2>3, <2>4, <2>5 DEF Chunk
<1>4. CASE e # d \/ l # k
  <2>1. c = pipe[e][l][i] /\ i \in 1..Len(pipe[e][l])
    BY <1>4, TakenShape
  <2>2. Fit(e, c)
    BY <2>1 DEF FlowInv, UnderWay
  <2>3. c \in Chunk /\ f \in Chunk
    BY <1>1, <2>1, ChunkTyped
  <2>4. CASE e # d
    <3>1. c.src # f.src
      <4> HIDE DEF c, f
      <4> QED
        BY <1>2, <2>2, <2>4, EndsApart DEF Fit
    <3> QED
      BY <2>2, <3>1
  <2>5. CASE e = d /\ k > l
    <3>1. c.src = f.src => f.n < c.n /\ f.data <= c.data
      BY <1>1, <2>1, <2>5 DEF FlowInv, Ordered, Ahead
    <3> QED
      BY <2>2, <2>3, <2>5, <3>1 DEF Chunk
  <2>6. CASE e = d /\ k < l
    <3>1. c.src = f.src => c.n < f.n
      BY <1>1, <2>1, <2>6 DEF FlowInv, Ordered, Ahead
    <3>2. k # 6
      BY <2>6 DEF Stages
    <3> QED
      BY <2>2, <2>3, <2>6, <3>1, <3>2 DEF Chunk
  <2> QED
    BY <1>4, <2>4, <2>5, <2>6 DEF Stages
<1> QED
  BY <1>3, <1>4

LEMMA DroppedFlow ==
  ASSUME TypeOK, FlowInv, NEW d \in Directions, NEW k \in Stages, Waiting(d, k), Dropped(d, k),
         UNCHANGED <<held, sent, last, data>>
  PROVE  FlowInv'
<1> DEFINE f == First(d, k)
<1>1. /\ pipe' = Taken(d, k) /\ Within(pipe', pipe)
      /\ lost' = [lost EXCEPT ![f.src] = @ \cup {f.n}]
  BY TakenWithin DEF Dropped
<1>2. f \in Chunk /\ Fit(d, f)
  BY TakenShape DEF FlowInv, UnderWay
<1>3. /\ f.src \in Sources /\ f.n \in Nat /\ lost \in [Sources -> SUBSET Nat]
      /\ held \in [Sources -> Nat] /\ sent \in [Sources -> Nat]
  BY <1>2 DEF Chunk, TypeOK
<1>4. UnderWay'
  <2> SUFFICES ASSUME NEW e \in Directions, NEW l \in Stages, NEW i \in 1..Len(pipe'[e][l])
               PROVE  Fit(e, pipe[e][l][i])'
    BY DEF UnderWay, Fit
  <2>1. /\ Fit(e, pipe'[e][l][i])
        /\ pipe'[e][l][i].src = f.src => pipe'[e][l][i].n # f.n
    BY <1>1, RestDiffers
  <2>2. pipe'[e][l][i].src \in Sources
    BY <2>1 DEF Fit, Ends, Sources
  <2> QED
    BY <1>1, <1>3, <2>1, <2>2 DEF Fit
<1>5. Ordered'
  BY <1>1, WithinOrdered DEF FlowInv
<1>6. HeldFit'
  BY <1>1, <1>2, <1>3 DEF FlowInv, HeldFit, Fit
<1>7. Bounded'
  BY <1>1, <1>2, <1>3 DEF FlowInv, Bounded, Fit
<1>8. Somewhere'
  <2> SUFFICES ASSUME NEW s \in Sources, NEW n \in (last[s] + 1)..sent[s]
               PROVE  n \in lost'[s] \/ n = held[s] \/ InPipe(pipe', s, n)
    BY DEF Somewhere, InPipe
  <2>1. n \in lost[s] \/ n = held[s] \/ InPipe(pipe, s, n)
    BY DEF FlowInv, Somewhere
  <2>2. InPipe(pipe, s, n) => InPipe(pipe', s, n) \/ (s = f.src /\ n = f.n)
    BY <1>1, TakenWithin
  <2> QED
    BY <1>1, <1>3, <2>1, <2>2
<1> QED
  BY <1>4, <1>5, <1>6, <1>7, <1>8 DEF FlowInv

LEMMA ArrivedFlow ==
  ASSUME TypeOK, FlowInv, NEW d \in Directions, Waiting(d, 6), Arrived(d, 6),
         UNCHANGED <<held, sent, lost>>
  PROVE  FlowInv'
<1> DEFINE f == First(d, 6)
<1>0. 6 \in Stages
  BY DEF Stages
<1>1. /\ pipe' = Taken(d, 6) /\ Within(pipe', pipe)
      /\ last' = [last EXCEPT ![f.src] = f.n] /\ data' = [data EXCEPT ![f.src] = f.data]
  BY <1>0, TakenWithin DEF Arrived
<1>2. f \in Chunk /\ Fit(d, f)
  BY <1>0, TakenShape DEF FlowInv, UnderWay
<1>3. /\ f.src \in Sources /\ f.n \in Nat /\ f.data \in Nat
      /\ last \in [Sources -> Nat] /\ data \in [Sources -> Nat] /\ lost \in [Sources -> SUBSET Nat]
      /\ held \in [Sources -> Nat] /\ sent \in [Sources -> Nat]
  BY <1>2 DEF Chunk, TypeOK
<1>4. UnderWay'
  <2> SUFFICES ASSUME NEW e \in Directions, NEW l \in Stages, NEW i \in 1..Len(pipe'[e][l])
               PROVE  Fit(e, pipe[e][l][i])'
    BY DEF UnderWay, Fit
  <2>1. /\ Fit(e, pipe'[e][l][i])
        /\ pipe'[e][l][i].src = f.src =>
             f.n < pipe'[e][l][i].n /\ f.data <= pipe'[e][l][i].data
    BY <1>0, <1>1, RestDiffers
  <2>2. pipe'[e][l][i].src \in Sources
    BY <2>1 DEF Fit, Ends, Sources
  <2> QED
    BY <1>1, <1>3, <2>1, <2>2 DEF Fit
<1>5. Ordered'
  BY <1>1, WithinOrdered DEF FlowInv
<1>6. HeldFit'
  BY <1>1, <1>2, <1>3 DEF FlowInv, HeldFit, Fit
<1>7. Bounded'
  BY <1>1, <1>2, <1>3 DEF FlowInv, Bounded, Fit
<1>8. Somewhere'
  <2> SUFFICES ASSUME NEW s \in Sources, NEW n \in (last'[s] + 1)..sent[s]
               PROVE  n \in lost[s] \/ n = held[s] \/ InPipe(pipe', s, n)
    BY DEF Somewhere, InPipe
  <2>1. n \in (last[s] + 1)..sent[s]
    <3>1. last[s] <= last'[s] /\ last[s] \in Nat /\ last'[s] \in Nat
      BY <1>1, <1>2, <1>3 DEF Fit
    <3> QED
      BY <1>3, <3>1
  <2>2. n \in lost[s] \/ n = held[s] \/ InPipe(pipe, s, n)
    BY <2>1 DEF FlowInv, Somewhere
  <2>3. InPipe(pipe, s, n) => InPipe(pipe', s, n) \/ (s = f.src /\ n = f.n)
    BY <1>0, <1>1, TakenWithin
  <2>4. s = f.src => n # f.n
    BY <1>1, <1>3
  <2> QED
    BY <2>2, <2>3, <2>4
<1> QED
  BY <1>4, <1>5, <1>6, <1>7, <1>8 DEF FlowInv

(* The chunk in hand goes to the end of the line.                           *)
LEMMA AddedFlow ==
  ASSUME TypeOK, FlowInv, NEW d \in Directions, NEW s \in Ends(d), s \in Sources, held[s] # 0,
         pipe' = Added(d, InHand(s)), held' = [held EXCEPT ![s] = 0], UNCHANGED history
  PROVE  FlowInv'
<1> DEFINE end == Len(pipe[d][1]) + 1
<1>0. 1 \in Stages /\ end \in Nat \ {0}
  BY PipeTyped, LenProperties DEF Stages, Line
<1> PICK h \in Chunk : h = InHand(s)
  BY InHandTyped
<1>1. h.src = s /\ h.n = held[s] /\ h.data = held[s]
  BY DEF InHand
<1>2. /\ \A e \in Directions, l \in Stages : e # d \/ l # 1 => pipe'[e][l] = pipe[e][l]
      /\ Len(pipe'[d][1]) = end
      /\ \A i \in 1..Len(pipe[d][1]) : pipe'[d][1][i] = pipe[d][1][i]
      /\ pipe'[d][1][end] = h
  BY <1>1, AddedShape
<1>3. /\ held \in [Sources -> Nat] /\ sent \in [Sources -> Nat] /\ data \in [Sources -> Nat]
      /\ last \in [Sources -> Nat]
  BY DEF TypeOK
<1>4. Fit(d, h)'
  BY <1>1, <1>3 DEF FlowInv, HeldFit, Bounded, Fit, history
<1>5. \A i \in 1..end : i = end \/ i \in 1..Len(pipe[d][1])
  BY <1>0
<1> HIDE DEF end
<1>6. ASSUME NEW e \in Directions, NEW l \in Stages, NEW i \in 1..Len(pipe'[e][l])
      PROVE  \/ e = d /\ l = 1 /\ i = end /\ pipe'[e][l][i] = h
             \/ i \in 1..Len(pipe[e][l]) /\ pipe'[e][l][i] = pipe[e][l][i]
  BY <1>2, <1>5
<1>7. UnderWay'
  <2> SUFFICES ASSUME NEW e \in Directions, NEW l \in Stages, NEW i \in 1..Len(pipe'[e][l])
               PROVE  Fit(e, pipe[e][l][i])'
    BY DEF UnderWay, Fit
  <2>1. CASE e = d /\ pipe'[e][l][i] = h
    BY <1>4, <2>1 DEF Fit
  <2>2. CASE i \in 1..Len(pipe[e][l]) /\ pipe'[e][l][i] = pipe[e][l][i]
    <3>1. Fit(e, pipe[e][l][i])
      BY <2>2 DEF FlowInv, UnderWay
    <3>2. pipe[e][l][i].src \in Sources
      BY <3>1 DEF Fit, Ends, Sources
    <3> QED
      BY <1>3, <2>2, <3>1, <3>2 DEF Fit, history
  <2> QED
    BY <1>6, <2>1, <2>2
<1>8. Ordered'
  <2> SUFFICES ASSUME NEW e \in Directions, NEW k \in Stages, NEW l \in Stages,
                      NEW i \in 1..Len(pipe'[e][k]), NEW j \in 1..Len(pipe'[e][l]),
                      Ahead(k, i, l, j), pipe'[e][k][i].src = pipe'[e][l][j].src
               PROVE  /\ pipe'[e][k][i].n < pipe'[e][l][j].n
                      /\ pipe'[e][k][i].data <= pipe'[e][l][j].data
    BY DEF Ordered, Ahead
  <2>1. CASE i \in 1..Len(pipe[e][k]) /\ pipe'[e][k][i] = pipe[e][k][i]
               /\ j \in 1..Len(pipe[e][l]) /\ pipe'[e][l][j] = pipe[e][l][j]
    BY <2>1 DEF FlowInv, Ordered
  <2>2. CASE i \in 1..Len(pipe[e][k]) /\ pipe'[e][k][i] = pipe[e][k][i]
               /\ e = d /\ pipe'[e][l][j] = h
    <3>1. Fit(e, pipe[e][k][i])
      BY <2>2 DEF FlowInv, UnderWay
    <3> QED
      BY <1>1, <2>2, <3>1 DEF Fit, FlowInv, HeldFit
  <2>3. ASSUME k = 1, i = end, e = d PROVE FALSE
    <3>1. k = l /\ i < j
      BY <2>3 DEF Ahead, Stages
    <3>2. j \in 1..end
      BY <1>2, <2>3, <3>1
    <3> QED
      BY <1>0, <2>3, <3>1, <3>2
  <2> QED
    BY <1>6, <2>1, <2>2, <2>3
<1>9. HeldFit' /\ Bounded'
  BY <1>3 DEF FlowInv, HeldFit, Bounded, history
<1>10. Somewhere'
  <2> SUFFICES ASSUME NEW t \in Sources, NEW n \in (last[t] + 1)..sent[t]
               PROVE  n \in lost[t] \/ n = held'[t] \/ InPipe(pipe', t, n)
    BY DEF Somewhere, InPipe, history
  <2>1. n \in lost[t] \/ n = held[t] \/ InPipe(pipe, t, n)
    BY DEF FlowInv, Somewhere
  <2>2. CASE InPipe(pipe, t, n)
    <3>1. PICK e \in Directions, l \in Stages : \E i \in 1..Len(pipe[e][l]) :
              pipe[e][l][i].src = t /\ pipe[e][l][i].n = n
      BY <2>2 DEF InPipe
    <3>2. PICK i \in 1..Len(pipe[e][l]) : pipe[e][l][i].src = t /\ pipe[e][l][i].n = n
      BY <3>1
    <3>3. i \in 1..Len(pipe'[e][l]) /\ pipe'[e][l][i] = pipe[e][l][i]
      <4>1. CASE e = d /\ l = 1
        BY <1>0, <1>2, <4>1 DEF end
      <4>2. CASE e # d \/ l # 1
        BY <1>2, <4>2
      <4> QED
        BY <4>1, <4>2
    <3> QED
      BY <3>2, <3>3 DEF InPipe
  <2>3. CASE n = held[t] /\ t = s
    <3>1. end \in 1..Len(pipe'[d][1])
      BY <1>0, <1>2
    <3> QED
      BY <1>0, <1>1, <1>2, <2>3, <3>1 DEF InPipe
  <2>4. CASE n = held[t] /\ t # s
    BY <1>3, <2>4
  <2> QED
    BY <2>1, <2>2, <2>3, <2>4
<1> QED
  BY <1>7, <1>8, <1>9, <1>10 DEF FlowInv

(* A connection sends one more chunk, which is in hand then.                *)
LEMMA SentFlow ==
  ASSUME TypeOK, FlowInv, NEW s \in Sources, held[s] = 0,
         sent' = [sent EXCEPT ![s] = @ + 1], held' = [held EXCEPT ![s] = sent[s] + 1],
         UNCHANGED <<last, data, lost>>,
         UnderWay', Ordered',
         \A t, m : InPipe(pipe, t, m) => InPipe(pipe', t, m)
  PROVE  FlowInv'
<1>1. /\ held \in [Sources -> Nat] /\ sent \in [Sources -> Nat] /\ data \in [Sources -> Nat]
      /\ last \in [Sources -> Nat] /\ lost \in [Sources -> SUBSET Nat]
  BY DEF TypeOK
<1>2. sent[s] + 1 \notin lost[s] /\ last[s] <= sent[s] /\ sent[s] \in Nat /\ last[s] \in Nat
  BY <1>1 DEF FlowInv, Bounded
<1>3. HeldFit'
  BY <1>1, <1>2 DEF FlowInv, HeldFit
<1>4. Bounded'
  <2> SUFFICES ASSUME NEW t \in Sources
               PROVE  last[t] <= sent'[t] /\ data[t] <= sent'[t]
                      /\ \A m \in lost[t] : m <= sent'[t]
    BY DEF Bounded
  <2>1. /\ sent[t] \in Nat /\ sent'[t] \in Nat /\ sent[t] <= sent'[t]
        /\ last[t] \in Nat /\ data[t] \in Nat /\ lost[t] \subseteq Nat
    BY <1>1
  <2> QED
    BY <2>1 DEF FlowInv, Bounded
<1>5. Somewhere'
  <2> SUFFICES ASSUME NEW t \in Sources, NEW m \in (last[t] + 1)..sent'[t]
               PROVE  m \in lost[t] \/ m = held'[t] \/ InPipe(pipe', t, m)
    BY DEF Somewhere, InPipe
  <2>1. CASE m \in (last[t] + 1)..sent[t]
    <3>1. m \in lost[t] \/ m = held[t] \/ InPipe(pipe, t, m)
      BY <2>1 DEF FlowInv, Somewhere
    <3>2. m = held[t] => t # s
      BY <1>1, <2>1
    <3> QED
      BY <1>1, <3>1, <3>2
  <2>2. CASE m \notin (last[t] + 1)..sent[t]
    <3>1. t = s /\ m = sent[s] + 1
      BY <1>1, <2>2
    <3> QED
      BY <1>1, <3>1
  <2> QED
    BY <2>1, <2>2
<1> QED
  BY <1>3, <1>4, <1>5 DEF FlowInv

LEMMA TargetReadFlow ==
  ASSUME TypeOK, FlowInv, NEW t \in Targets, TargetRead(t)
  PROVE  FlowInv'
<1>1. t \in Sources /\ held[t] = 0 /\ UNCHANGED <<pipe, last, data, lost>>
      /\ sent' = [sent EXCEPT ![t] = @ + 1] /\ held' = [held EXCEPT ![t] = sent[t] + 1]
  BY SourceSets DEF TargetRead
<1>2. UnderWay'
  <2> SUFFICES ASSUME NEW d \in Directions, NEW k \in Stages, NEW i \in 1..Len(pipe[d][k])
               PROVE  Fit(d, pipe[d][k][i])'
    BY <1>1 DEF UnderWay, Fit
  <2> PICK c \in Chunk : c = pipe[d][k][i]
    BY ChunkTyped
  <2>1. Fit(d, c) /\ c.src \in Sources /\ c.n \in Nat /\ c.data \in Nat
    BY DEF FlowInv, UnderWay, Chunk
  <2>2. sent[c.src] \in Nat /\ sent[c.src] <= sent'[c.src]
    BY <1>1, <2>1 DEF TypeOK
  <2>3. held'[c.src] # 0 => c.n < held'[c.src]
    BY <1>1, <2>1 DEF Fit, TypeOK
  <2>4. Fit(d, c)'
    BY <1>1, <2>1, <2>2, <2>3 DEF Fit
  <2> QED
    BY <1>1, <2>4
<1>3. Ordered'
  BY <1>1, SamePipe, WithinOrdered DEF FlowInv
<1> QED
  BY <1>1, <1>2, <1>3, SentFlow

(* The chunks of g that still point into the buffer of its handler take the *)
(* data of the new one; those ahead of them have older data.                *)
LEMMA ReadFlow ==
  ASSUME TypeOK, FlowInv, NEW g \in Locals, Read(g)
  PROVE  FlowInv'
<1> PICK n \in Nat \ {0} : n = sent[g] + 1
  BY SourceSets DEF TypeOK
<1>1. g \in Sources /\ held[g] = 0 /\ pipe' = Read1(g, n) /\ UNCHANGED <<last, data, lost>>
      /\ sent' = [sent EXCEPT ![g] = @ + 1] /\ held' = [held EXCEPT ![g] = n]
  BY SourceSets DEF Read, Read1
<1>2. /\ held \in [Sources -> Nat] /\ sent \in [Sources -> Nat] /\ data \in [Sources -> Nat]
      /\ last \in [Sources -> Nat]
  BY DEF TypeOK
<1>3. ASSUME NEW d \in Directions, NEW k \in Stages
      PROVE  Len(pipe'[d][k]) = Len(pipe[d][k])
  BY <1>1, Read1Shape
<1>8. /\ \A e \in Directions, l \in Stages : e # "fwd" \/ l \notin {1, 2} => pipe'[e][l] = pipe[e][l]
      /\ \A l \in {1, 2} : \A i \in 1..Len(pipe["fwd"][l]) :
             /\ pipe'["fwd"][l][i].src = pipe["fwd"][l][i].src
             /\ pipe'["fwd"][l][i].n = pipe["fwd"][l][i].n
             /\ pipe'["fwd"][l][i].data =
                  IF pipe["fwd"][l][i].src = g THEN n ELSE pipe["fwd"][l][i].data
  BY <1>1, Read1Shape
<1>4. ASSUME NEW d \in Directions, NEW k \in Stages, NEW i \in 1..Len(pipe[d][k])
      PROVE  /\ pipe[d][k][i] \in Chunk
             /\ Fit(d, pipe[d][k][i])
             /\ pipe'[d][k][i].src = pipe[d][k][i].src /\ pipe'[d][k][i].n = pipe[d][k][i].n
             /\ pipe'[d][k][i].data = IF d = "fwd" /\ k \in {1, 2} /\ pipe[d][k][i].src = g
                                      THEN n ELSE pipe[d][k][i].data
  <2>1. pipe[d][k][i] \in Chunk /\ Fit(d, pipe[d][k][i])
    BY ChunkTyped DEF FlowInv, UnderWay
  <2>2. CASE d = "fwd" /\ k \in {1, 2}
    <3>1. k \in {1, 2} /\ i \in 1..Len(pipe["fwd"][k])
      BY <2>2
    <3>2. /\ pipe'["fwd"][k][i].src = pipe["fwd"][k][i].src
          /\ pipe'["fwd"][k][i].n = pipe["fwd"][k][i].n
          /\ pipe'["fwd"][k][i].data =
               IF pipe["fwd"][k][i].src = g THEN n ELSE pipe["fwd"][k][i].data
      BY <1>8, <3>1
    <3> QED
      BY <2>1, <2>2, <3>2
  <2>3. CASE d # "fwd" \/ k \notin {1, 2}
    BY <1>8, <2>1, <2>3
  <2> QED
    BY <2>2, <2>3
<1>5. UnderWay'
  <2> SUFFICES ASSUME NEW d \in Directions, NEW k \in Stages, NEW i \in 1..Len(pipe[d][k])
               PROVE  Fit(d, pipe[d][k][i])'
    BY <1>3 DEF UnderWay, Fit
  <2> PICK c \in Chunk : c = pipe[d][k][i]
    BY <1>4
  <2> PICK e : e = pipe'[d][k][i]
    OBVIOUS
  <2>1. /\ Fit(d, c) /\ e.src = c.src /\ e.n = c.n
        /\ e.data = IF d = "fwd" /\ k \in {1, 2} /\ c.src = g THEN n ELSE c.data
    BY <1>4
  <2>2. c.src \in Sources /\ c.n \in Nat /\ c.data \in Nat
    BY DEF Chunk
  <2>3. CASE c.src = g
    <3>1. d = "fwd"
      BY <2>1, <2>3, EndsApart DEF Fit, Ends, Directions
    <3>2. /\ last[g] < c.n /\ c.n <= sent[g] /\ c.n \notin lost[g] /\ c.n <= c.data
          /\ c.data <= sent[g] /\ data[g] <= c.data /\ data[g] <= sent[g]
      BY <1>1, <2>1, <2>3 DEF Fit, FlowInv, Bounded
    <3>3. sent'[g] = n /\ held'[g] = n /\ sent[g] \in Nat /\ data[g] \in Nat /\ n = sent[g] + 1
      BY <1>1, <1>2
    <3>4. e.data \in {n, c.data}
      BY <2>1
    <3>5. c.n <= e.data /\ e.data <= n /\ data[g] <= e.data /\ c.n < n
      <4>1. c.n \in Nat /\ c.data \in Nat /\ n \in Nat
        BY <2>2, <3>3
      <4>2. CASE e.data = n
        BY <3>2, <3>3, <4>1, <4>2
      <4>3. CASE e.data = c.data
        BY <3>2, <3>3, <4>1, <4>3
      <4> QED
        BY <3>4, <4>2, <4>3
    <3>6. Fit(d, e)'
      BY <1>1, <2>1, <2>2, <2>3, <3>1, <3>2, <3>3, <3>5 DEF Fit
    <3> QED
      BY <3>6
  <2>4. CASE c.src # g
    <3>1. sent'[c.src] = sent[c.src] /\ held'[c.src] = held[c.src]
      BY <1>1, <1>2, <2>2, <2>4
    <3>2. Fit(d, e)'
      BY <1>1, <2>1, <2>2, <2>4, <3>1 DEF Fit
    <3> QED
      BY <3>2
  <2> QED
    BY <2>3, <2>4
<1>6. Ordered'
  <2> SUFFICES ASSUME NEW d \in Directions, NEW k \in Stages, NEW l \in Stages,
                      NEW i \in 1..Len(pipe'[d][k]), NEW j \in 1..Len(pipe'[d][l]),
                      Ahead(k, i, l, j), pipe'[d][k][i].src = pipe'[d][l][j].src
               PROVE  /\ pipe'[d][k][i].n < pipe'[d][l][j].n
                      /\ pipe'[d][k][i].data <= pipe'[d][l][j].data
    BY DEF Ordered, Ahead
  <2>0. i \in 1..Len(pipe[d][k]) /\ j \in 1..Len(pipe[d][l])
    BY <1>3
  <2>1. /\ pipe[d][k][i] \in Chunk /\ Fit(d, pipe[d][k][i])
        /\ pipe'[d][k][i].src = pipe[d][k][i].src /\ pipe'[d][k][i].n = pipe[d][k][i].n
        /\ pipe'[d][k][i].data = IF d = "fwd" /\ k \in {1, 2} /\ pipe[d][k][i].src = g
                                 THEN n ELSE pipe[d][k][i].data
    BY <1>4, <2>0
  <2>2. /\ pipe[d][l][j] \in Chunk
        /\ pipe'[d][l][j].src = pipe[d][l][j].src /\ pipe'[d][l][j].n = pipe[d][l][j].n
        /\ pipe'[d][l][j].data = IF d = "fwd" /\ l \in {1, 2} /\ pipe[d][l][j].src = g
                                 THEN n ELSE pipe[d][l][j].data
    BY <1>4, <2>0
  <2>3. pipe[d][k][i].n < pipe[d][l][j].n /\ pipe[d][k][i].data <= pipe[d][l][j].data
    BY <2>0, <2>1, <2>2 DEF FlowInv, Ordered
  <2>4. CASE d = "fwd" /\ l \in {1, 2} /\ pipe[d][l][j].src = g
    <3>1. pipe[d][k][i].data <= sent[g] /\ pipe[d][k][i].data \in Nat /\ sent[g] \in Nat
      BY <1>1, <1>2, <2>1, <2>2, <2>4 DEF Fit, Chunk
    <3> QED
      BY <2>1, <2>2, <2>3, <2>4, <3>1
  <2>5. CASE ~(d = "fwd" /\ l \in {1, 2} /\ pipe[d][l][j].src = g)
    <3>1. ~(d = "fwd" /\ k \in {1, 2} /\ pipe[d][k][i].src = g)
      <4>1. k \in {1, 2} => l \in {1, 2}
        BY DEF Ahead, Stages
      <4> QED
        BY <2>1, <2>2, <2>5, <4>1
    <3> QED
      BY <2>1, <2>2, <2>3, <2>5, <3>1
  <2> QED
    BY <2>4, <2>5
<1>7. ASSUME NEW t, NEW m, InPipe(pipe, t, m) PROVE InPipe(pipe', t, m)
  <2>1. PICK e \in Directions, l \in Stages : \E i \in 1..Len(pipe[e][l]) :
            pipe[e][l][i].src = t /\ pipe[e][l][i].n = m
    BY <1>7 DEF InPipe
  <2> QED
    BY <1>3, <1>4, <2>1 DEF InPipe
<1> QED
  BY <1>1, <1>5, <1>6, <1>7, SentFlow

LEMMA HeldDroppedFlow ==
  ASSUME TypeOK, FlowInv, NEW g \in Locals, held[g] # 0, UNCHANGED <<pipe, sent, last, data>>,
         lost' = [lost EXCEPT ![g] = @ \cup {held[g]}], held' = [held EXCEPT ![g] = 0]
  PROVE  FlowInv'
<1>1. g \in Sources
  BY SourceSets
<1>2. /\ held \in [Sources -> Nat] /\ sent \in [Sources -> Nat] /\ data \in [Sources -> Nat]
      /\ last \in [Sources -> Nat] /\ lost \in [Sources -> SUBSET Nat]
  BY DEF TypeOK
<1>3. UnderWay'
  <2> SUFFICES ASSUME NEW d \in Directions, NEW k \in Stages, NEW i \in 1..Len(pipe[d][k])
               PROVE  Fit(d, pipe[d][k][i])'
    BY DEF UnderWay, Fit
  <2> PICK c \in Chunk : c = pipe[d][k][i]
    BY ChunkTyped
  <2>1. Fit(d, c) /\ c.src \in Sources /\ c.n \in Nat
    BY DEF FlowInv, UnderWay, Chunk
  <2>2. c.n \notin lost'[c.src]
    BY <1>1, <1>2, <2>1 DEF Fit
  <2>3. Fit(d, c)'
    BY <1>1, <1>2, <2>1, <2>2 DEF Fit
  <2> QED
    BY <2>3
<1>4. Ordered'
  BY SamePipe, WithinOrdered DEF FlowInv
<1>5. HeldFit'
  BY <1>1, <1>2 DEF FlowInv, HeldFit
<1>6. Bounded'
  BY <1>1, <1>2 DEF FlowInv, HeldFit, Bounded
<1>7. Somewhere'
  <2> SUFFICES ASSUME NEW s \in Sources, NEW n \in (last[s] + 1)..sent[s]
               PROVE  n \in lost'[s] \/ n = held'[s] \/ InPipe(pipe, s, n)
    BY DEF Somewhere, InPipe
  <2>1. n \in lost[s] \/ n = held[s] \/ InPipe(pipe, s, n)
    BY DEF FlowInv, Somewhere
  <2> QED
    BY <1>1, <1>2, <2>1
<1> QED
  BY <1>3, <1>4, <1>5, <1>6, <1>7 DEF FlowInv

-----------------------------------------------------------------------------
(***************************************************************************)
(* Steps by what they do to the chunks.                                    *)
(***************************************************************************)
Quietly ==
  /\ UNCHANGED <<held, history>>
  /\ UNCHANGED pipe \/ \E d \in Directions, k \in 1..5 : Waiting(d, k) /\ pipe' = Passed(d, k)

Drops ==
  \E d \in Directions, k \in Stages :
    Waiting(d, k) /\ Dropped(d, k) /\ UNCHANGED <<held, sent, last, data>>

Arrives ==
  \E d \in Directions : Waiting(d, 6) /\ Arrived(d, 6) /\ UNCHANGED <<held, sent, lost>>

PutsIn ==
  \E d \in Directions : \E s \in Ends(d) :
    /\ s \in Sources /\ held[s] # 0
    /\ pipe' = Added(d, InHand(s)) /\ held' = [held EXCEPT ![s] = 0]
    /\ UNCHANGED history

DropsInHand ==
  \E g \in Locals :
    /\ held[g] # 0 /\ UNCHANGED <<pipe, sent, last, data>>
    /\ lost' = [lost EXCEPT ![g] = @ \cup {held[g]}] /\ held' = [held EXCEPT ![g] = 0]

Reads == (\E g \in Locals : Read(g)) \/ \E t \in Targets : TargetRead(t)

LEMMA StepKinds ==
  ASSUME Handed, [Next]_vars
  PROVE  Quietly \/ Drops \/ Arrives \/ PutsIn \/ DropsInHand \/ Reads
<1> USE DEF pipeVars, clientVars, serverVars, proxyVars, history
<1>0. "fwd" \in Directions /\ "bwd" \in Directions /\ {3, 6} \subseteq Stages
      /\ {1, 2, 3, 4, 5} \subseteq 1..5 /\ Locals = Ends("fwd") /\ Targets = Ends("bwd")
  BY DEF Directions, Stages, Ends
<1>1. ASSUME UNCHANGED vars PROVE Quietly
  BY <1>1 DEF vars, Quietly
<1>2. ASSUME NEW d \in Directions, NEW k \in {1, 2, 4, 5}, Move(d, k) PROVE Quietly
  BY <1>0, <1>2 DEF Move, Quietly
<1>3. ASSUME Lookup \/ RegisterProxy \/ CleanupStale \/ Forward PROVE Quietly
  BY <1>3 DEF Lookup, RegisterProxy, CleanupStale, Forward, Quietly
<1>4. ASSUME NEW g \in Locals, Connect(g) \/ Close(g) PROVE Quietly
  BY <1>4 DEF Connect, Close, Quietly
<1>5. ASSUME NEW t \in Targets, Dial(t) \/ TargetCloses(t) \/ ReaderEnds(t) PROVE Quietly
  BY <1>5 DEF Dial, TargetCloses, ReaderEnds, Quietly
<1>6. ASSUME RouteFromClient PROVE Quietly \/ Drops
  BY <1>0, <1>6 DEF RouteFromClient, Quietly, Drops
<1>7. ASSUME RouteFromProxy PROVE Quietly \/ Drops
  BY <1>0, <1>7 DEF RouteFromProxy, Quietly, Drops
<1>8. ASSUME DeliverFails \/ DialFails \/ WriteLost \/ WriteFails PROVE Drops
  BY <1>0, <1>8 DEF DeliverFails, DialFails, WriteLost, WriteFails, Handed, Drops
<1>9. ASSUME DeliverResponse \/ Write PROVE Arrives
  BY <1>0, <1>9 DEF DeliverResponse, Write, Handed, Arrives
<1>10. ASSUME NEW g \in Locals, ServerWriter(g) PROVE PutsIn \/ DropsInHand
  <2>1. CASE Room("fwd", 1)
    BY <1>0, <1>10, <2>1, SourceSets DEF ServerWriter, PutsIn, Added
  <2>2. CASE ~Room("fwd", 1)
    BY <1>10, <2>2 DEF ServerWriter, DropsInHand
  <2> QED
    BY <2>1, <2>2
<1>11. ASSUME NEW t \in Targets, SendResponse(t) PROVE PutsIn
  BY <1>0, <1>11, SourceSets DEF SendResponse, PutsIn, Added
<1> QED
  BY <1>1, <1>2, <1>3, <1>4, <1>5, <1>6, <1>7, <1>8, <1>9, <1>10, <1>11 DEF Next, Loops, Reads

LEMMA FlowInvariant == Spec => []FlowInv
<1>1. Init => FlowInv
  <2> SUFFICES ASSUME Init
               PROVE  FlowInv
    OBVIOUS
  <2>1. \A d \in Directions, k \in Stages : Len(pipe[d][k]) = 0
    BY EmptySeq DEF Init
  <2>2. UnderWay /\ Ordered
    BY <2>1 DEF UnderWay, Ordered
  <2>3. \A s \in Sources : sent[s] = 0 /\ last[s] = 0 /\ data[s] = 0 /\ lost[s] = {} /\ held[s] = 0
    BY DEF Init
  <2> QED
    BY <2>2, <2>3 DEF FlowInv, HeldFit, Bounded, Somewhere
<1>2. TypeOK /\ Handed /\ FlowInv /\ [Next]_vars => FlowInv'
  <2> SUFFICES ASSUME TypeOK, Handed, FlowInv, [Next]_vars
               PROVE  FlowInv'
    OBVIOUS
  <2>1. CASE Quietly
    <3>1. CASE UNCHANGED pipe
      BY <2>1, <3>1, SamePipe, QuietFlow DEF Quietly
    <3>2. ASSUME NEW d \in Directions, NEW k \in 1..5, Waiting(d, k), pipe' = Passed(d, k)
          PROVE  FlowInv'
      BY <2>1, <3>2, PassedWithin, QuietFlow DEF Quietly
    <3> QED
      BY <2>1, <3>1, <3>2 DEF Quietly
  <2>2. CASE Drops
    BY <2>2, DroppedFlow DEF Drops
  <2>3. CASE Arrives
    BY <2>3, ArrivedFlow DEF Arrives
  <2>4. CASE PutsIn
    BY <2>4, AddedFlow DEF PutsIn
  <2>5. CASE DropsInHand
    BY <2>5, HeldDroppedFlow DEF DropsInHand
  <2>6. CASE Reads
    BY <2>6, ReadFlow, TargetReadFlow DEF Reads
  <2> QED
    BY <2>1, <2>2, <2>3, <2>4, <2>5, <2>6, StepKinds
<1> QED
  BY <1>1, <1>2, TypeInvariant, PTL DEF Spec

-----------------------------------------------------------------------------
(***************************************************************************)
(* The tunnel implements the streams.                                      *)
(***************************************************************************)
LEMMA DropIsLose ==
  ASSUME TypeOK, FlowInv, Drops \/ DropsInHand
  PROVE  Stream!Next
<1>1. ASSUME NEW s \in Sources, NEW n \in (last[s] + 1)..sent[s], UNCHANGED <<sent, last, data>>,
             lost' = [lost EXCEPT ![s] = @ \cup {n}]
      PROVE  Stream!Next
  BY <1>1 DEF Stream!Next, Stream!Lose
<1>2. CASE Drops
  <2>1. PICK d \in Directions, k \in Stages :
          Waiting(d, k) /\ Dropped(d, k) /\ UNCHANGED <<sent, last, data>>
    BY <1>2 DEF Drops
  <2> PICK c \in Chunk : c = First(d, k)
    BY <2>1, TakenShape
  <2>2. Fit(d, c)
    BY <2>1, TakenShape DEF FlowInv, UnderWay
  <2>3. c.src \in Sources /\ c.n \in Nat /\ last[c.src] \in Nat /\ sent[c.src] \in Nat
    BY DEF Chunk, TypeOK
  <2>4. c.n \in (last[c.src] + 1)..sent[c.src]
    BY <2>2, <2>3 DEF Fit
  <2>5. lost' = [lost EXCEPT ![c.src] = @ \cup {c.n}]
    BY <2>1 DEF Dropped
  <2> QED
    BY <1>1, <2>1, <2>3, <2>4, <2>5
<1>3. CASE DropsInHand
  <2>1. PICK g \in Locals :
          /\ held[g] # 0 /\ UNCHANGED <<sent, last, data>>
          /\ lost' = [lost EXCEPT ![g] = @ \cup {held[g]}]
    BY <1>3 DEF DropsInHand
  <2>2. g \in Sources /\ last[g] \in Nat /\ sent[g] \in Nat /\ held[g] \in Nat
    BY SourceSets DEF TypeOK
  <2>3. held[g] \in (last[g] + 1)..sent[g]
    BY <2>1, <2>2 DEF FlowInv, HeldFit
  <2> QED
    BY <1>1, <2>1, <2>2, <2>3
<1> QED
  BY <1>2, <1>3

(* What is passed over by a chunk that arrives was given up: it is not in   *)
(* hand, as that is newer, and nothing older is left in the pipe.           *)
LEMMA ArriveIsDeliver ==
  ASSUME TypeOK, FlowInv, Arrives
  PROVE  Stream!Next
<1>1. PICK d \in Directions : Waiting(d, 6) /\ Arrived(d, 6) /\ UNCHANGED <<sent, lost>>
  BY DEF Arrives
<1>2. 6 \in Stages
  BY DEF Stages
<1> PICK c \in Chunk : c = First(d, 6)
  BY <1>1, <1>2, TakenShape
<1>3. c = pipe[d][6][1] /\ 1 \in 1..Len(pipe[d][6]) /\ Fit(d, c)
  BY <1>1, <1>2, TakenShape DEF FlowInv, UnderWay
<1>4. /\ c.src \in Sources /\ c.n \in Nat /\ c.data \in Nat
      /\ last[c.src] \in Nat /\ sent[c.src] \in Nat /\ data[c.src] \in Nat
      /\ last \in [Sources -> Nat] /\ data \in [Sources -> Nat]
  BY DEF Chunk, TypeOK
<1>5. c.n \in (last[c.src] + 1)..sent[c.src] /\ c.n \notin lost[c.src]
  BY <1>3, <1>4 DEF Fit
<1>6. ASSUME NEW m \in (last[c.src] + 1)..(c.n - 1)
      PROVE  m \in lost[c.src]
  <2>1. m \in (last[c.src] + 1)..sent[c.src] /\ m < c.n /\ m # 0
    BY <1>4, <1>5
  <2>2. m \in lost[c.src] \/ m = held[c.src] \/ InPipe(pipe, c.src, m)
    BY <1>4, <2>1 DEF FlowInv, Somewhere
  <2>3. m # held[c.src]
    BY <1>3, <1>4, <2>1 DEF Fit, TypeOK
  <2>4. ASSUME InPipe(pipe, c.src, m) PROVE FALSE
    <3>1. PICK e \in Directions, l \in Stages : \E i \in 1..Len(pipe[e][l]) :
              pipe[e][l][i].src = c.src /\ pipe[e][l][i].n = m
      BY <2>4 DEF InPipe
    <3>2. PICK i \in 1..Len(pipe[e][l]) : pipe[e][l][i].src = c.src /\ pipe[e][l][i].n = m
      BY <3>1
    <3>3. e = d
      <4>1. Fit(e, pipe[e][l][i])
        BY DEF FlowInv, UnderWay
      <4> QED
        BY <1>3, <3>2, <4>1, EndsApart DEF Fit
    <3>4. CASE l = 6 /\ i = 1
      BY <1>3, <1>4, <2>1, <3>2, <3>3, <3>4
    <3>5. CASE ~(l = 6 /\ i = 1)
      <4>1. Ahead(6, 1, l, i)
        BY <3>5 DEF Ahead, Stages
      <4>2. c.n < m
        BY <1>2, <1>3, <3>2, <3>3, <4>1 DEF FlowInv, Ordered
      <4> QED
        BY <1>4, <2>1, <4>2
    <3> QED
      BY <3>4, <3>5
  <2> QED
    BY <2>2, <2>3, <2>4
<1>7. last' = [last EXCEPT ![c.src] = c.n] /\ data' = [data EXCEPT ![c.src] = c.data]
  BY <1>1 DEF Arrived
<1>8. c.data \in IF c.src \in Locals THEN c.n..sent[c.src] ELSE {c.n}
  <2>1. c.n <= c.data /\ c.data <= sent[c.src]
    BY <1>3 DEF Fit
  <2>2. c.src \notin Locals => d = "bwd" /\ c.data = c.n
    BY <1>3 DEF Fit, Ends, Directions
  <2> QED
    BY <1>4, <2>1, <2>2
<1>9. c.data >= data[c.src]
  BY <1>3, <1>4 DEF Fit
<1>10. Stream!Deliver(c.src, c.n)
  BY <1>1, <1>5, <1>6, <1>7, <1>8, <1>9 DEF Stream!Deliver
<1> QED
  BY <1>4, <1>5, <1>10 DEF Stream!Next

LEMMA ReadIsSend ==
  ASSUME Reads
  PROVE  Stream!Next
<1>1. PICK s \in Sources : sent' = [sent EXCEPT ![s] = @ + 1] /\ UNCHANGED <<last, data, lost>>
  BY SourceSets DEF Reads, Read, TargetRead
<1>2. Stream!Send(s)
  BY <1>1 DEF Stream!Send
<1> QED
  BY <1>2 DEF Stream!Next

(* Full channels, refused routes, failed dials and writes, connections that *)
(* close and are replaced under one ID at both ends, and readers that share *)
(* responseChan cost chunks and nothing else: what arrives of a connection  *)
(* is what it sent, in order, at most once.  Its data are exact towards the *)
(* application; towards the target they may be those of a later chunk.      *)
THEOREM ImplementsStreams == Spec => Streams
<1>1. Init => Stream!Init
  BY DEF Init, Stream!Init
<1>2. TypeOK /\ Handed /\ FlowInv /\ [Next]_vars => [Stream!Next]_(Stream!vars)
  <2> SUFFICES ASSUME TypeOK, Handed, FlowInv, [Next]_vars
               PROVE  Stream!Next \/ UNCHANGED Stream!vars
    OBVIOUS
  <2>1. Quietly \/ PutsIn => UNCHANGED Stream!vars
    BY DEF Quietly, PutsIn, history, Stream!vars
  <2> QED
    BY <2>1, StepKinds, DropIsLose, ArriveIsDeliver, ReadIsSend
<1> QED
  BY <1>1, <1>2, TypeInvariant, FlowInvariant, PTL DEF Spec, Streams, Stream!Spec
===============================================================================
