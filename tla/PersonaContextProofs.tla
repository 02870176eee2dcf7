------------------------ MODULE PersonaContextProofs ------------------------
(***************************************************************************)
(* PersonaContext for any number of blocks, compactions and processes: no  *)
(* block is lost, and what a persona reads is its latest blocks, unless    *)
(* one of the things happens that the flags stand for.                     *)
(***************************************************************************)
EXTENDS PersonaContext, SequenceTheorems, TLAPS

\* What a write over the head of a file leaves.
LEMMA OverlayType ==
    ASSUME NEW old \in Seq(Nat), NEW new \in Seq(Nat)
    PROVE  /\ Overlay(old, new) \in Seq(Nat)
           /\ \A i \in DOMAIN new : i \in DOMAIN Overlay(old, new)
                                    /\ Overlay(old, new)[i] = new[i]
           /\ \A i \in DOMAIN Overlay(old, new) : i \notin DOMAIN new =>
                 i \in DOMAIN old /\ Overlay(old, new)[i] = old[i]
<1> DEFINE n == IF Len(old) > Len(new) THEN Len(old) ELSE Len(new)
           e(i) == IF i <= Len(new) THEN new[i] ELSE old[i]
<1>1. n \in Nat /\ Len(new) \in Nat /\ DOMAIN new = 1..Len(new)
      /\ DOMAIN old = 1..Len(old) /\ Len(old) \in Nat
  OBVIOUS
<1>2. Overlay(old, new) = [i \in 1..n |-> e(i)]
  BY DEF Overlay
<1>3. \A i \in 1..n : e(i) \in Nat
  BY <1>1
<1> HIDE DEF e
<1>4. [i \in 1..n |-> e(i)] \in [1..n -> Nat]
  BY <1>3
<1> HIDE DEF n
<1>5. Overlay(old, new) \in Seq(Nat) /\ Len(Overlay(old, new)) = n
  BY <1>1, <1>2, <1>4
<1>6. ASSUME NEW i \in DOMAIN new
      PROVE  i \in DOMAIN Overlay(old, new) /\ Overlay(old, new)[i] = new[i]
  <2>1. i \in 1..n /\ i <= Len(new)
    BY <1>1 DEF n
  <2> QED
    BY <1>2, <2>1 DEF e
<1>7. ASSUME NEW i \in DOMAIN Overlay(old, new), i \notin DOMAIN new
      PROVE  i \in DOMAIN old /\ Overlay(old, new)[i] = old[i]
  <2>1. i \in 1..n
    BY <1>2
  <2>2. i \in 1..Len(old) /\ ~(i <= Len(new))
    BY <1>1, <1>7, <2>1 DEF n
  <2> QED
    BY <1>1, <1>2, <2>1, <2>2 DEF e
<1> QED
  BY <1>5, <1>6, <1>7

\* The two halves a compaction makes of what it has read.
LEMMA Halves ==
    ASSUME TypeOK, NEW c \in Compactor, keep[c] > 0, Len(data[c]) > keep[c]
    PROVE  /\ Cut(c) \in Nat
           /\ Moved(c) \in Seq(Nat) /\ Len(Moved(c)) = Cut(c)
           /\ \A i \in 1..Cut(c) : Moved(c)[i] = data[c][i]
           /\ Kept(c) \in Seq(Nat) /\ Len(Kept(c)) = keep[c]
           /\ \A i \in 1..keep[c] : Kept(c)[i] = data[c][Cut(c) + i]
           /\ Blocks(data[c]) = Blocks(Moved(c)) \cup Blocks(Kept(c))
<1>1. data[c] \in Seq(Nat) /\ keep[c] \in Nat
  BY DEF TypeOK
<1> DEFINE d == data[c]  k == keep[c]  m == Cut(c)
<1>2. Len(d) \in Nat /\ m \in Nat /\ m = Len(d) - k /\ m < Len(d)
      /\ DOMAIN d = 1..Len(d)
  BY <1>1 DEF Cut
<1>3. \A i \in 1..Len(d) : d[i] \in Nat
  BY <1>1
<1>4. Moved(c) = SubSeq(d, 1, m) /\ Kept(c) = SubSeq(d, m + 1, Len(d))
  BY DEF Moved, Kept
<1> HIDE DEF d, m, k
<1>5. /\ Moved(c) \in Seq(Nat) /\ Len(Moved(c)) = m
      /\ \A i \in 1..m : Moved(c)[i] = d[i]
  BY <1>2, <1>3, <1>4, SubSeqProperties
<1>6. /\ Kept(c) \in Seq(Nat) /\ Len(Kept(c)) = k
      /\ \A i \in 1..k : Kept(c)[i] = d[m + i]
  <2>1. k \in Nat
    BY <1>1 DEF k
  <2>2. /\ m + 1 \in Int /\ Len(d) \in Int /\ Len(d) - (m + 1) + 1 = k
        /\ m + 1 <= Len(d)
    BY <1>2, <2>1
  <2>3. \A i \in (m + 1)..Len(d) : i \in 1..Len(d)
    BY <1>2
  <2>4. \A i \in (m + 1)..Len(d) : d[i] \in Nat
    BY <1>3, <2>3
  <2>5. /\ SubSeq(d, m + 1, Len(d)) \in Seq(Nat)
        /\ Len(SubSeq(d, m + 1, Len(d)))
              = IF m + 1 <= Len(d) THEN Len(d) - (m + 1) + 1 ELSE 0
        /\ \A i \in 1..(Len(d) - (m + 1) + 1) :
              SubSeq(d, m + 1, Len(d))[i] = d[m + 1 + i - 1]
    BY <2>2, <2>4, SubSeqProperties
  <2>6. /\ SubSeq(d, m + 1, Len(d)) \in Seq(Nat)
        /\ Len(SubSeq(d, m + 1, Len(d))) = k
        /\ \A i \in 1..k : SubSeq(d, m + 1, Len(d))[i] = d[m + 1 + i - 1]
    BY <2>2, <2>5
  <2>7. \A i \in 1..k : m + 1 + i - 1 = m + i
    BY <1>1, <1>2 DEF k
  <2> QED
    BY <1>4, <2>6, <2>7
<1>7. Blocks(d) = Blocks(Moved(c)) \cup Blocks(Kept(c))
  <2>1. DOMAIN Moved(c) = 1..m /\ DOMAIN Kept(c) = 1..k /\ k \in Nat
    BY <1>1, <1>5, <1>6 DEF k
  <2>2. ASSUME NEW i \in 1..Len(d)
        PROVE  d[i] \in Blocks(Moved(c)) \cup Blocks(Kept(c))
    <3>1. CASE i <= m
      <4>1. i \in 1..m
        BY <1>2, <3>1
      <4>2. i \in DOMAIN Moved(c) /\ Moved(c)[i] = d[i]
        BY <1>5, <2>1, <4>1
      <4> QED
        BY <4>2 DEF Blocks
    <3>2. CASE i > m
      <4>1. i - m \in 1..k /\ m + (i - m) = i
        BY <1>2, <2>1, <3>2
      <4> QED
        BY <1>6, <2>1, <4>1 DEF Blocks
    <3> QED
      BY <1>2, <3>1, <3>2
  <2>3. \A i \in 1..m : Moved(c)[i] \in Blocks(d)
    BY <1>2, <1>5 DEF Blocks
  <2>4. \A i \in 1..k : Kept(c)[i] \in Blocks(d)
    <3>1. \A i \in 1..k : m + i \in 1..Len(d)
      BY <1>2, <2>1
    <3> QED
      BY <1>2, <1>6, <3>1 DEF Blocks
  <2> QED
    BY <1>2, <2>1, <2>2, <2>3, <2>4 DEF Blocks
<1> QED
  BY <1>2, <1>5, <1>6, <1>7 DEF d, m, k

-----------------------------------------------------------------------------
LEMMA Initial == ASSUME ContextAssumption, Init PROVE Consistent
<1> USE DEF Init
<1>1. TypeOK
  <2>1. <<>> \in Seq(Nat) /\ 0 \in Second
    BY DEF ContextAssumption
  <2>2. context \in Seq(Nat) /\ backups \in [Second -> Seq(Nat)]
        /\ data \in [Compactor -> Seq(Nat)]
    BY <2>1
  <2>3. pc \in [Compactor -> Step]
    BY DEF Step
  <2>4. keep \in [Compactor -> Nat] /\ name \in [Compactor -> Second]
        /\ clock \in Second
    BY <2>1
  <2>5. exists \in SUBSET Second /\ late \in SUBSET Nat
        /\ appended \in Nat /\ started \in Nat
    OBVIOUS
  <2>6. raced \in BOOLEAN /\ torn \in BOOLEAN /\ reused \in BOOLEAN
        /\ short \in BOOLEAN
    OBVIOUS
  <2> QED
    BY <2>2, <2>3, <2>4, <2>5, <2>6 DEF TypeOK
<1>2. \A c \in Compactor : ~InProgress(c)
  BY DEF InProgress
<1>3. NoneFromTheFuture
  BY DEF NoneFromTheFuture
<1>4. BothHalves /\ OneAtATime /\ ReadIsGood /\ ReadIsCurrent
  BY <1>2 DEF BothHalves, OneAtATime, ReadIsGood, ReadIsCurrent
<1>5. BackupFirst
  BY DEF BackupFirst
<1>6. EmptyBeforeWritten
  BY DEF EmptyBeforeWritten
<1>7. NothingLost
  BY DEF NothingLost
<1>8. LatestAreRead
  BY DEF LatestAreRead, Ascending, NoGap
<1> QED
  BY <1>1, <1>3, <1>4, <1>5, <1>6, <1>7, <1>8 DEF Consistent

\* What an append makes of the file.
LEMMA Appending ==
    ASSUME TypeOK, AppendBlock
    PROVE  /\ appended \in Nat /\ appended' = appended + 1
           /\ context' \in Seq(Nat) /\ Len(context') = Len(context) + 1
           /\ \A i \in DOMAIN context : i \in DOMAIN context' /\ context'[i] = context[i]
           /\ context'[Len(context) + 1] = appended + 1
           /\ \A i \in DOMAIN context' : i \in DOMAIN context \/ i = Len(context) + 1
           /\ Blocks(context') = Blocks(context) \cup {appended + 1}
<1>1. context \in Seq(Nat) /\ appended \in Nat /\ appended' = appended + 1
      /\ context' = Append(context, appended + 1)
  BY DEF TypeOK, AppendBlock, PutLast
<1>2. /\ context' \in Seq(Nat) /\ Len(context') = Len(context) + 1
      /\ \A i \in 1..Len(context) : context'[i] = context[i]
      /\ context'[Len(context) + 1] = appended + 1
  BY <1>1
<1>3. DOMAIN context = 1..Len(context) /\ Len(context) \in Nat
      /\ DOMAIN context' = 1..(Len(context) + 1)
  BY <1>1, <1>2
<1>4. \A i \in DOMAIN context : i \in DOMAIN context' /\ context'[i] = context[i]
  BY <1>2, <1>3
<1>5. \A i \in DOMAIN context' : i \in DOMAIN context \/ i = Len(context) + 1
  BY <1>3
<1>6. Len(context) + 1 \in DOMAIN context'
  BY <1>3
<1>7. Blocks(context') = Blocks(context) \cup {appended + 1}
  BY <1>2, <1>4, <1>5, <1>6 DEF Blocks
<1> QED
  BY <1>1, <1>2, <1>4, <1>5, <1>7

\* What a compaction makes of the file in the end.
LEMMA Rewriting ==
    ASSUME TypeOK, BothHalves, NEW c \in Compactor, RewriteContext(c)
    PROVE  /\ context' \in Seq(Nat)
           /\ \A i \in 1..keep[c] : /\ i \in DOMAIN context' /\ i \in DOMAIN Kept(c)
                                    /\ context'[i] = Kept(c)[i]
                                    /\ Cut(c) + i \in DOMAIN data[c]
                                    /\ Kept(c)[i] = data[c][Cut(c) + i]
           /\ \A i \in DOMAIN context' : i \notin 1..keep[c] =>
                 i \in DOMAIN context /\ context'[i] = context[i]
           /\ DOMAIN Kept(c) = 1..keep[c]
           /\ Blocks(Kept(c)) \subseteq Blocks(context')
           /\ keep[c] \in Nat \ {0} /\ Cut(c) \in Nat
<1>1. keep[c] > 0 /\ Len(data[c]) > keep[c] /\ context \in Seq(Nat)
      /\ keep[c] \in Nat /\ context' = Overlay(context, Kept(c))
      /\ data[c] \in Seq(Nat)
  BY DEF BothHalves, RewriteContext, InProgress, TypeOK
<1>2. /\ Cut(c) \in Nat
      /\ Kept(c) \in Seq(Nat) /\ Len(Kept(c)) = keep[c]
      /\ \A i \in 1..keep[c] : Kept(c)[i] = data[c][Cut(c) + i]
  BY <1>1, Halves
<1>3. DOMAIN Kept(c) = 1..keep[c]
  BY <1>2
<1>4. /\ Overlay(context, Kept(c)) \in Seq(Nat)
      /\ \A i \in DOMAIN Kept(c) : i \in DOMAIN Overlay(context, Kept(c))
                               /\ Overlay(context, Kept(c))[i] = Kept(c)[i]
      /\ \A i \in DOMAIN Overlay(context, Kept(c)) : i \notin DOMAIN Kept(c) =>
            i \in DOMAIN context /\ Overlay(context, Kept(c))[i] = context[i]
  BY <1>1, <1>2, OverlayType
<1>5. \A i \in 1..keep[c] : Cut(c) + i \in DOMAIN data[c]
  BY <1>1, <1>2 DEF Cut
<1>6. Blocks(Kept(c)) \subseteq Blocks(context')
  BY <1>1, <1>4 DEF Blocks
<1>7. keep[c] \in Nat \ {0}
  BY <1>1
<1> QED
  BY <1>1, <1>2, <1>3, <1>4, <1>5, <1>6, <1>7

\* What a write that falls short leaves is the head of what was to be written.
LEMMA Heads ==
    ASSUME NEW file \in Seq(Nat), NEW n \in 1..Len(file)
    PROVE  /\ SubSeq(file, 1, n) \in Seq(Nat)
           /\ DOMAIN SubSeq(file, 1, n) = 1..n
           /\ \A i \in 1..n : SubSeq(file, 1, n)[i] = file[i]
<1>1. \A i \in 1..n : file[i] \in Nat
  OBVIOUS
<1>2. n \in Nat /\ 1 \in Int /\ n \in Int /\ n - 1 + 1 = n /\ 1 <= n
  OBVIOUS
<1>3. /\ SubSeq(file, 1, n) \in Seq(Nat)
      /\ Len(SubSeq(file, 1, n)) = n
      /\ \A i \in 1..n : SubSeq(file, 1, n)[i] = file[1 + i - 1]
  BY <1>1, <1>2, SubSeqProperties
<1>4. \A i \in 1..n : 1 + i - 1 = i
  OBVIOUS
<1> QED
  BY <1>2, <1>3, <1>4

\* What a rewrite that falls short makes of the file.
LEMMA FallingShort ==
    ASSUME TypeOK, BothHalves, NEW c \in Compactor, RewriteFallsShort(c)
    PROVE  /\ context' \in Seq(Nat)
           /\ \E n \in 1..keep[c] :
                 /\ \A i \in 1..n : /\ i \in DOMAIN context'
                                    /\ Cut(c) + i \in DOMAIN data[c]
                                    /\ context'[i] = data[c][Cut(c) + i]
                 /\ \A i \in DOMAIN context' : i \notin 1..n =>
                       i \in DOMAIN context /\ context'[i] = context[i]
           /\ keep[c] \in Nat \ {0} /\ Cut(c) \in Nat
<1>1. keep[c] > 0 /\ Len(data[c]) > keep[c] /\ context \in Seq(Nat)
      /\ keep[c] \in Nat /\ data[c] \in Seq(Nat)
  BY DEF BothHalves, RewriteFallsShort, InProgress, TypeOK
<1>2. PICK n \in 1..keep[c] : context' = Overlay(context, SubSeq(Kept(c), 1, n))
  BY DEF RewriteFallsShort
<1>3. /\ Cut(c) \in Nat
      /\ Kept(c) \in Seq(Nat) /\ Len(Kept(c)) = keep[c]
      /\ \A i \in 1..keep[c] : Kept(c)[i] = data[c][Cut(c) + i]
  BY <1>1, Halves
<1> DEFINE head == SubSeq(Kept(c), 1, n)
<1>4. /\ head \in Seq(Nat) /\ DOMAIN head = 1..n
      /\ \A i \in 1..n : head[i] = Kept(c)[i]
  BY <1>3, Heads
<1> HIDE DEF head
<1>5. /\ Overlay(context, head) \in Seq(Nat)
      /\ \A i \in DOMAIN head : i \in DOMAIN Overlay(context, head)
                               /\ Overlay(context, head)[i] = head[i]
      /\ \A i \in DOMAIN Overlay(context, head) : i \notin DOMAIN head =>
            i \in DOMAIN context /\ Overlay(context, head)[i] = context[i]
  BY <1>1, <1>4, OverlayType
<1>6. context' = Overlay(context, head)
  BY <1>2 DEF head
<1>7. \A i \in 1..n : i \in 1..keep[c]
  BY <1>1
<1>8. \A i \in 1..keep[c] : Cut(c) + i \in DOMAIN data[c]
  BY <1>1, <1>3 DEF Cut
<1>9. \A i \in 1..n : /\ i \in DOMAIN context'
                      /\ Cut(c) + i \in DOMAIN data[c]
                      /\ context'[i] = data[c][Cut(c) + i]
  BY <1>3, <1>4, <1>5, <1>6, <1>7, <1>8
<1>10. \A i \in DOMAIN context' : i \notin 1..n =>
          i \in DOMAIN context /\ context'[i] = context[i]
  BY <1>4, <1>5, <1>6
<1>11. keep[c] \in Nat \ {0}
  BY <1>1
<1> QED
  BY <1>3, <1>5, <1>6, <1>9, <1>10, <1>11

LEMMA IdleType ==
    ASSUME ContextAssumption, TypeOK, NEW c \in Compactor, Idle(c)
    PROVE  /\ pc' \in [Compactor -> Step]
           /\ data' \in [Compactor -> Seq(Nat)]
           /\ keep' \in [Compactor -> Nat]
           /\ name' \in [Compactor -> Second]
<1>1. 0 \in Second /\ "idle" \in Step /\ <<>> \in Seq(Nat)
  BY DEF ContextAssumption, Step
<1> QED
  BY <1>1 DEF Idle, TypeOK

LEMMA TypeStep ==
    ASSUME ContextAssumption, TypeOK, BothHalves, [Next]_vars
    PROVE  TypeOK'
<1> USE DEF files, compacts, flags
<1>1. CASE Tick
  BY <1>1 DEF Tick, TypeOK
<1>2. CASE AppendBlock
  <2>1. context' \in Seq(Nat) /\ appended' \in Nat
    BY <1>2, Appending
  <2>2. late' \in SUBSET Nat
    BY <1>2, <2>1 DEF AppendBlock, TypeOK
  <2> QED
    BY <1>2, <2>1, <2>2 DEF AppendBlock, TypeOK
<1>3. ASSUME NEW c \in Compactor, ReadContext(c) PROVE TypeOK'
  <2>1. keep' \in [Compactor -> Nat]
    BY <1>3 DEF ReadContext, TypeOK, ContextAssumption
  <2>2. data' \in [Compactor -> Seq(Nat)] /\ pc' \in [Compactor -> Step]
    BY <1>3 DEF ReadContext, TypeOK, Step
  <2>3. started' \in Nat /\ raced' \in BOOLEAN
    BY <1>3 DEF ReadContext, TypeOK
  <2> QED
    BY <1>3, <2>1, <2>2, <2>3 DEF ReadContext, TypeOK
<1>4. ASSUME NEW c \in Compactor, OpenBackup(c) PROVE TypeOK'
  <2>1. name' \in [Compactor -> Second] /\ pc' \in [Compactor -> Step]
    BY <1>4 DEF OpenBackup, TypeOK, Step
  <2>2. backups' \in [Second -> Seq(Nat)] /\ exists' \in SUBSET Second
    BY <1>4 DEF OpenBackup, TypeOK
  <2>3. reused' \in BOOLEAN
    BY <1>4 DEF OpenBackup, TypeOK
  <2> QED
    BY <1>4, <2>1, <2>2, <2>3 DEF OpenBackup, TypeOK
<1>5. ASSUME NEW c \in Compactor, WriteBackup(c) PROVE TypeOK'
  <2>1. keep[c] > 0 /\ Len(data[c]) > keep[c]
    BY <1>5 DEF WriteBackup, BothHalves, InProgress
  <2>2. Moved(c) \in Seq(Nat)
    BY <2>1, Halves
  <2>3. backups[name[c]] \in Seq(Nat)
    BY DEF TypeOK
  <2>4. Archived(c) \in Seq(Nat)
    BY <2>2, <2>3, OverlayType DEF Archived
  <2>5. backups' \in [Second -> Seq(Nat)] /\ pc' \in [Compactor -> Step]
    BY <1>5, <2>4 DEF WriteBackup, TypeOK, Step
  <2> QED
    BY <1>5, <2>5 DEF WriteBackup, TypeOK
<1>6. ASSUME NEW c \in Compactor, TruncateContext(c) PROVE TypeOK'
  <2>1. context' \in Seq(Nat) /\ pc' \in [Compactor -> Step]
    BY <1>6 DEF TruncateContext, TypeOK, Step
  <2> QED
    BY <1>6, <2>1 DEF TruncateContext, TypeOK
<1>7. ASSUME NEW c \in Compactor, RewriteContext(c) PROVE TypeOK'
  <2>1. context' \in Seq(Nat)
    BY <1>7, Rewriting
  <2> QED
    BY <1>7, <2>1, IdleType DEF RewriteContext, TypeOK
<1>8. ASSUME NEW c \in Compactor, Abandon(c) PROVE TypeOK'
  <2>1. torn' \in BOOLEAN
    BY <1>8 DEF Abandon, TypeOK
  <2> QED
    BY <1>8, <2>1, IdleType DEF Abandon, TypeOK
<1>9. CASE UNCHANGED vars
  BY <1>9 DEF vars, TypeOK
<1>10. ASSUME NEW c \in Compactor, BackupFallsShort(c) PROVE TypeOK'
  <2>1. keep[c] > 0 /\ Len(data[c]) > keep[c]
    BY <1>10 DEF BackupFallsShort, BothHalves, InProgress
  <2>2. Moved(c) \in Seq(Nat) /\ Len(Moved(c)) = Cut(c)
    BY <2>1, Halves
  <2>3. backups[name[c]] \in Seq(Nat)
    BY DEF TypeOK
  <2>4. PICK n \in 1..Cut(c) :
           backups' = [backups EXCEPT ![name[c]] =
                          Overlay(@, SubSeq(Moved(c), 1, n))]
    BY <1>10 DEF BackupFallsShort
  <2>5. SubSeq(Moved(c), 1, n) \in Seq(Nat)
    BY <2>2, Heads
  <2>6. Overlay(backups[name[c]], SubSeq(Moved(c), 1, n)) \in Seq(Nat)
    BY <2>3, <2>5, OverlayType
  <2>7. backups' \in [Second -> Seq(Nat)]
    BY <2>4, <2>6 DEF TypeOK
  <2> QED
    BY <1>10, <2>7, IdleType DEF BackupFallsShort, TypeOK
<1>11. ASSUME NEW c \in Compactor, RewriteFallsShort(c) PROVE TypeOK'
  <2>1. context' \in Seq(Nat)
    BY <1>11, FallingShort
  <2> QED
    BY <1>11, <2>1, IdleType DEF RewriteFallsShort, TypeOK
<1> QED
  BY <1>1, <1>2, <1>3, <1>4, <1>5, <1>6, <1>7, <1>8, <1>9, <1>10, <1>11 DEF Next, Compact

\* What the end of a compaction leaves alone.
LEMMA Idling ==
    ASSUME TypeOK, NEW c \in Compactor, Idle(c)
    PROVE  /\ pc'[c] = "idle" /\ data'[c] = <<>>
           /\ \A d \in Compactor : d # c =>
                 /\ pc'[d] = pc[d] /\ data'[d] = data[d]
                 /\ keep'[d] = keep[d] /\ name'[d] = name[d]
BY DEF Idle, TypeOK

LEMMA FutureStep ==
    ASSUME TypeOK, BothHalves, NoneFromTheFuture, TypeOK', [Next]_vars
    PROVE  NoneFromTheFuture'
<1> USE DEF files, compacts, flags
<1>1. CASE Tick
  BY <1>1 DEF Tick, NoneFromTheFuture
<1>2. CASE AppendBlock
  <2>1. data' = data
    BY <1>2 DEF AppendBlock
  <2>2. ASSUME NEW i \in DOMAIN context' PROVE context'[i] <= appended'
    <3>1. CASE i \in DOMAIN context
      <4>1. context[i] \in Nat /\ context[i] <= appended
        BY <3>1 DEF NoneFromTheFuture, TypeOK
      <4>2. context'[i] = context[i] /\ appended' = appended + 1 /\ appended \in Nat
        BY <1>2, <3>1, Appending
      <4> QED
        BY <4>1, <4>2
    <3>2. CASE i = Len(context) + 1
      <4>1. context'[i] = appended + 1 /\ appended' = appended + 1 /\ appended \in Nat
        BY <1>2, <3>2, Appending
      <4> QED
        BY <4>1
    <3> QED
      BY <1>2, <3>1, <3>2, Appending
  <2>3. ASSUME NEW c \in Compactor, NEW i \in DOMAIN data'[c]
        PROVE  data'[c][i] <= appended'
    <3>1. data[c] \in Seq(Nat) /\ i \in DOMAIN data[c]
      BY <2>1, <2>3 DEF TypeOK
    <3>2. data[c][i] \in Nat /\ data[c][i] <= appended
      BY <3>1 DEF NoneFromTheFuture
    <3> QED
      BY <1>2, <2>1, <3>2, Appending
  <2> QED
    BY <2>2, <2>3 DEF NoneFromTheFuture
<1>3. ASSUME NEW c \in Compactor, ReadContext(c) PROVE NoneFromTheFuture'
  <2>1. context' = context /\ appended' = appended /\ data'[c] = context
        /\ \A d \in Compactor : d # c => data'[d] = data[d]
    BY <1>3 DEF ReadContext, TypeOK
  <2> QED
    BY <2>1 DEF NoneFromTheFuture
<1>4. ASSUME NEW c \in Compactor, OpenBackup(c) PROVE NoneFromTheFuture'
  BY <1>4 DEF OpenBackup, NoneFromTheFuture
<1>5. ASSUME NEW c \in Compactor, WriteBackup(c) PROVE NoneFromTheFuture'
  BY <1>5 DEF WriteBackup, NoneFromTheFuture
<1>6. ASSUME NEW c \in Compactor, TruncateContext(c) PROVE NoneFromTheFuture'
  BY <1>6 DEF TruncateContext, NoneFromTheFuture
<1>7. ASSUME NEW c \in Compactor, RewriteContext(c) PROVE NoneFromTheFuture'
  <2>1. appended' = appended /\ Idle(c)
    BY <1>7 DEF RewriteContext
  <2>2. ASSUME NEW i \in DOMAIN context' PROVE context'[i] <= appended
    BY <1>7, Rewriting DEF NoneFromTheFuture
  <2>3. \A d \in Compactor : \A i \in DOMAIN data'[d] : data'[d][i] <= appended
    BY <2>1, Idling DEF NoneFromTheFuture
  <2> QED
    BY <2>1, <2>2, <2>3 DEF NoneFromTheFuture
<1>8. ASSUME NEW c \in Compactor, Abandon(c) \/ BackupFallsShort(c)
      PROVE  NoneFromTheFuture'
  <2>1. appended' = appended /\ context' = context /\ Idle(c)
    BY <1>8 DEF Abandon, BackupFallsShort
  <2>2. \A d \in Compactor : \A i \in DOMAIN data'[d] : data'[d][i] <= appended
    BY <2>1, Idling DEF NoneFromTheFuture
  <2> QED
    BY <2>1, <2>2 DEF NoneFromTheFuture
<1>9. CASE UNCHANGED vars
  BY <1>9 DEF vars, NoneFromTheFuture
<1>10. ASSUME NEW c \in Compactor, RewriteFallsShort(c) PROVE NoneFromTheFuture'
  <2>1. appended' = appended /\ Idle(c)
    BY <1>10 DEF RewriteFallsShort
  <2>2. ASSUME NEW i \in DOMAIN context' PROVE context'[i] <= appended
    BY <1>10, FallingShort DEF NoneFromTheFuture
  <2>3. \A d \in Compactor : \A i \in DOMAIN data'[d] : data'[d][i] <= appended
    BY <2>1, Idling DEF NoneFromTheFuture
  <2> QED
    BY <2>1, <2>2, <2>3 DEF NoneFromTheFuture
<1> QED
  BY <1>1, <1>2, <1>3, <1>4, <1>5, <1>6, <1>7, <1>8, <1>9, <1>10 DEF Next, Compact

LEMMA HalvesStep ==
    ASSUME ContextAssumption, TypeOK, BothHalves, [Next]_vars
    PROVE  BothHalves'
<1> USE DEF files, compacts, flags, InProgress
<1>1. CASE Tick
  BY <1>1 DEF Tick, BothHalves
<1>2. CASE AppendBlock
  BY <1>2 DEF AppendBlock, BothHalves
<1>3. ASSUME NEW c \in Compactor, ReadContext(c) PROVE BothHalves'
  <2>1. PICK k \in Keep : Len(context) > k /\ keep' = [keep EXCEPT ![c] = k]
    BY <1>3 DEF ReadContext
  <2>2. k > 0 /\ keep'[c] = k /\ data'[c] = context
    BY <1>3, <2>1 DEF ReadContext, TypeOK, ContextAssumption
  <2>3. \A d \in Compactor : d # c => /\ pc'[d] = pc[d] /\ data'[d] = data[d]
                                      /\ keep'[d] = keep[d]
    BY <1>3, <2>1 DEF ReadContext, TypeOK
  <2> QED
    BY <2>1, <2>2, <2>3 DEF BothHalves
<1>4. ASSUME NEW c \in Compactor, OpenBackup(c) PROVE BothHalves'
  BY <1>4 DEF OpenBackup, BothHalves, TypeOK
<1>5. ASSUME NEW c \in Compactor, WriteBackup(c) PROVE BothHalves'
  BY <1>5 DEF WriteBackup, BothHalves, TypeOK
<1>6. ASSUME NEW c \in Compactor, TruncateContext(c) PROVE BothHalves'
  BY <1>6 DEF TruncateContext, BothHalves, TypeOK
<1>7. ASSUME NEW c \in Compactor, RewriteContext(c) PROVE BothHalves'
  BY <1>7, Idling DEF RewriteContext, BothHalves
<1>8. ASSUME NEW c \in Compactor,
             Abandon(c) \/ BackupFallsShort(c) \/ RewriteFallsShort(c)
      PROVE  BothHalves'
  <2>1. Idle(c) /\ raced' = raced
    BY <1>8 DEF Abandon, BackupFallsShort, RewriteFallsShort
  <2> QED
    BY <2>1, Idling DEF BothHalves
<1>9. CASE UNCHANGED vars
  BY <1>9 DEF vars, BothHalves
<1> QED
  BY <1>1, <1>2, <1>3, <1>4, <1>5, <1>6, <1>7, <1>8, <1>9 DEF Next, Compact

LEMMA OneStep ==
    ASSUME TypeOK, OneAtATime, [Next]_vars
    PROVE  OneAtATime'
<1> USE DEF files, compacts, flags, InProgress
<1>1. CASE Tick
  BY <1>1 DEF Tick, OneAtATime
<1>2. CASE AppendBlock
  BY <1>2 DEF AppendBlock, OneAtATime
<1>3. ASSUME NEW c \in Compactor, ReadContext(c) PROVE OneAtATime'
  <2>1. ~raced' => \A d \in Compactor : ~InProgress(d)
    BY <1>3 DEF ReadContext
  <2>2. \A d \in Compactor : d # c => pc'[d] = pc[d]
    BY <1>3 DEF ReadContext, TypeOK
  <2> QED
    BY <2>1, <2>2 DEF OneAtATime
<1>4. ASSUME NEW c \in Compactor, OpenBackup(c) PROVE OneAtATime'
  BY <1>4 DEF OpenBackup, OneAtATime, TypeOK
<1>5. ASSUME NEW c \in Compactor, WriteBackup(c) PROVE OneAtATime'
  BY <1>5 DEF WriteBackup, OneAtATime, TypeOK
<1>6. ASSUME NEW c \in Compactor, TruncateContext(c) PROVE OneAtATime'
  BY <1>6 DEF TruncateContext, OneAtATime, TypeOK
<1>7. ASSUME NEW c \in Compactor, RewriteContext(c) PROVE OneAtATime'
  BY <1>7, Idling DEF RewriteContext, OneAtATime
<1>8. ASSUME NEW c \in Compactor,
             Abandon(c) \/ BackupFallsShort(c) \/ RewriteFallsShort(c)
      PROVE  OneAtATime'
  <2>1. Idle(c) /\ raced' = raced
    BY <1>8 DEF Abandon, BackupFallsShort, RewriteFallsShort
  <2> QED
    BY <2>1, Idling DEF OneAtATime
<1>9. CASE UNCHANGED vars
  BY <1>9 DEF vars, OneAtATime
<1> QED
  BY <1>1, <1>2, <1>3, <1>4, <1>5, <1>6, <1>7, <1>8, <1>9 DEF Next, Compact

LEMMA GoodStep ==
    ASSUME TypeOK, LatestAreRead, ReadIsGood, [Next]_vars
    PROVE  ReadIsGood'
<1> DEFINE Good(d) == Ascending(data[d]) /\ (~short => NoGap(data[d]))
<1> SUFFICES ASSUME ~raced', NEW d \in Compactor, InProgress(d)'
             PROVE  Good(d)'
  BY DEF ReadIsGood
<1> USE DEF files, compacts, flags
<1>1. ASSUME data'[d] = data[d], late' = late, appended' = appended, ~raced,
             InProgress(d), ~short' => ~short
      PROVE  Good(d)'
  <2>1. Good(d)
    BY <1>1 DEF ReadIsGood
  <2>2. Ascending(data[d])'
    BY <1>1, <2>1 DEF Ascending
  <2>3. ~short' => NoGap(data[d])'
    BY <1>1, <2>1 DEF NoGap
  <2> QED
    BY <2>2, <2>3
<1>2. CASE Tick
  BY <1>1, <1>2 DEF Tick, InProgress
<1>3. CASE AppendBlock
  <2>1. data' = data /\ pc' = pc /\ raced' = raced /\ short' = short
    BY <1>3 DEF AppendBlock
  <2>2. Good(d) /\ InProgress(d) /\ data[d] \in Seq(Nat)
    BY <2>1 DEF ReadIsGood, InProgress, TypeOK
  <2>3. NoGap(data[d]) => NoGap(data[d])'
    <3>1. late' = late \cup {appended + 1} /\ appended' = appended + 1
          /\ appended \in Nat
      BY <1>3, <2>2, Appending DEF AppendBlock
    <3>2. (1..appended') \ late' \subseteq (1..appended) \ late
      BY <3>1
    <3> QED
      BY <2>1, <3>2 DEF NoGap
  <2>4. Ascending(data[d])'
    BY <2>1, <2>2 DEF Ascending
  <2> QED
    BY <2>1, <2>2, <2>3, <2>4
<1>4. ASSUME NEW c \in Compactor, ReadContext(c)
      PROVE  Good(d)'
  <2>1. ~raced /\ \A e \in Compactor : ~InProgress(e)
    BY <1>4 DEF ReadContext
  <2>2. d = c
    BY <1>4, <2>1 DEF ReadContext, InProgress, TypeOK
  <2>3. data'[d] = context /\ late' = late /\ appended' = appended
        /\ short' = short
    BY <1>4, <2>2 DEF ReadContext, TypeOK
  <2>4. Ascending(context) /\ (~short => NoGap(context))
    BY <2>1 DEF LatestAreRead
  <2>5. Ascending(data[d])'
    BY <2>3, <2>4 DEF Ascending
  <2>6. ~short' => NoGap(data[d])'
    BY <2>3, <2>4 DEF NoGap
  <2> QED
    BY <2>5, <2>6
<1>5. ASSUME NEW c \in Compactor, OpenBackup(c)
      PROVE  Good(d)'
  BY <1>1, <1>5 DEF OpenBackup, InProgress, TypeOK
<1>6. ASSUME NEW c \in Compactor, WriteBackup(c)
      PROVE  Good(d)'
  BY <1>1, <1>6 DEF WriteBackup, InProgress, TypeOK
<1>7. ASSUME NEW c \in Compactor, TruncateContext(c)
      PROVE  Good(d)'
  BY <1>1, <1>7 DEF TruncateContext, InProgress, TypeOK
<1>8. ASSUME NEW c \in Compactor, \/ RewriteContext(c) \/ Abandon(c)
                                  \/ BackupFallsShort(c) \/ RewriteFallsShort(c)
      PROVE  Good(d)'
  <2>1. Idle(c) /\ late' = late /\ appended' = appended /\ raced' = raced
        /\ (~short' => ~short)
    BY <1>8 DEF RewriteContext, Abandon, BackupFallsShort, RewriteFallsShort
  <2>2. d # c /\ data'[d] = data[d] /\ InProgress(d)
    BY <2>1, Idling DEF InProgress
  <2> QED
    BY <1>1, <2>1, <2>2
<1>9. CASE UNCHANGED vars
  BY <1>1, <1>9 DEF vars, InProgress
<1> QED
  BY <1>2, <1>3, <1>4, <1>5, <1>6, <1>7, <1>8, <1>9 DEF Next, Compact

\* Two compactions are never under way, in what concerns the one that runs.
LEMMA Alone ==
    ASSUME OneAtATime, ~raced, NEW c \in Compactor, InProgress(c)
    PROVE  \A d \in Compactor : InProgress(d) => d = c
BY DEF OneAtATime

LEMMA CurrentStep ==
    ASSUME TypeOK, NoneFromTheFuture, OneAtATime, ReadIsCurrent, [Next]_vars
    PROVE  ReadIsCurrent'
<1> DEFINE Current(d) ==
      /\ pc[d] # "rewrite" =>
            /\ Len(data[d]) <= Len(context)
            /\ \A i \in DOMAIN data[d] : context[i] = data[d][i]
      /\ \A j \in DOMAIN context : pc[d] = "rewrite" \/ j > Len(data[d]) =>
            /\ context[j] \in late
            /\ \A i \in DOMAIN data[d] : data[d][i] < context[j]
<1> SUFFICES ASSUME ~raced', NEW d \in Compactor, InProgress(d)'
             PROVE  Current(d)'
  BY DEF ReadIsCurrent
<1> USE DEF files, compacts, flags
<1>1. ASSUME data'[d] = data[d], late' = late, context' = context, ~raced,
             InProgress(d), pc[d] # "rewrite", pc'[d] # "rewrite"
      PROVE  Current(d)'
  BY <1>1 DEF ReadIsCurrent
<1>a. ASSUME data'[d] = data[d], late' = late, context' = context, ~raced,
             InProgress(d), pc'[d] = pc[d]
      PROVE  Current(d)'
  BY <1>a DEF ReadIsCurrent
<1>2. CASE Tick
  BY <1>a, <1>2 DEF Tick, InProgress
<1>3. CASE AppendBlock
  <2>1. data' = data /\ pc' = pc /\ raced' = raced /\ InProgress(d)
    BY <1>3 DEF AppendBlock, InProgress
  <2>2. late' = late \cup {appended + 1} /\ appended \in Nat
    BY <1>3, <2>1, Appending DEF AppendBlock
  <2>3. Current(d) /\ data[d] \in Seq(Nat) /\ context \in Seq(Nat)
    BY <2>1 DEF ReadIsCurrent, TypeOK
  <2>4. ASSUME pc[d] # "rewrite"
        PROVE  /\ Len(data[d]) <= Len(context')
               /\ \A i \in DOMAIN data[d] : context'[i] = data[d][i]
    <3>1. Len(context') = Len(context) + 1
      BY <1>3, Appending
    <3>2. \A i \in DOMAIN data[d] : i \in DOMAIN context
      BY <2>3, <2>4
    <3> QED
      BY <1>3, <2>3, <2>4, <3>1, <3>2, Appending
  <2>5. ASSUME NEW j \in DOMAIN context', pc[d] = "rewrite" \/ j > Len(data[d])
        PROVE  /\ context'[j] \in late'
               /\ \A i \in DOMAIN data[d] : data[d][i] < context'[j]
    <3>1. CASE j \in DOMAIN context
      BY <1>3, <2>2, <2>3, <2>5, <3>1, Appending
    <3>2. CASE j = Len(context) + 1
      <4>1. context'[j] = appended + 1
        BY <1>3, <3>2, Appending
      <4>2. \A i \in DOMAIN data[d] : data[d][i] \in Nat /\ data[d][i] <= appended
        BY <2>3 DEF NoneFromTheFuture
      <4> QED
        BY <2>2, <4>1, <4>2
    <3> QED
      BY <1>3, <3>1, <3>2, Appending
  <2> QED
    BY <2>1, <2>4, <2>5
<1>4. ASSUME NEW c \in Compactor, ReadContext(c) PROVE Current(d)'
  <2>1. \A e \in Compactor : ~InProgress(e)
    BY <1>4 DEF ReadContext
  <2>2. d = c
    BY <1>4, <2>1 DEF ReadContext, InProgress, TypeOK
  <2>3. data'[d] = context /\ context' = context /\ pc'[d] = "backup"
    BY <1>4, <2>2 DEF ReadContext, TypeOK
  <2>4. \A j \in DOMAIN context : ~(j > Len(context))
    BY DEF TypeOK
  <2> QED
    BY <2>3, <2>4 DEF TypeOK
<1>5. ASSUME NEW c \in Compactor, OpenBackup(c) PROVE Current(d)'
  <2>1. data' = data /\ late' = late /\ context' = context /\ raced' = raced
    BY <1>5 DEF OpenBackup
  <2>2. CASE d = c
    BY <1>1, <1>5, <2>1, <2>2 DEF OpenBackup, InProgress, TypeOK
  <2>3. CASE d # c
    BY <1>a, <1>5, <2>1, <2>3 DEF OpenBackup, InProgress, TypeOK
  <2> QED
    BY <2>2, <2>3
<1>6. ASSUME NEW c \in Compactor, WriteBackup(c) PROVE Current(d)'
  <2>1. data' = data /\ late' = late /\ context' = context /\ raced' = raced
    BY <1>6 DEF WriteBackup
  <2>2. CASE d = c
    BY <1>1, <1>6, <2>1, <2>2 DEF WriteBackup, InProgress, TypeOK
  <2>3. CASE d # c
    BY <1>a, <1>6, <2>1, <2>3 DEF WriteBackup, InProgress, TypeOK
  <2> QED
    BY <2>2, <2>3
<1>7. ASSUME NEW c \in Compactor, TruncateContext(c) PROVE Current(d)'
  <2>1. InProgress(c) /\ InProgress(d) /\ ~raced
    BY <1>7 DEF TruncateContext, InProgress, TypeOK
  <2>2. d = c
    BY <2>1, Alone
  <2>3. pc'[d] = "rewrite" /\ context' = <<>>
    BY <1>7, <2>2 DEF TruncateContext, TypeOK
  <2> QED
    BY <2>3
<1>8. ASSUME NEW c \in Compactor, \/ RewriteContext(c) \/ Abandon(c)
                                  \/ BackupFallsShort(c) \/ RewriteFallsShort(c)
      PROVE  Current(d)'
  <2>1. Idle(c) /\ raced' = raced /\ InProgress(c)
    BY <1>8 DEF RewriteContext, Abandon, BackupFallsShort, RewriteFallsShort,
                InProgress
  <2>2. d # c /\ InProgress(d)
    BY <2>1, Idling DEF InProgress
  <2> QED
    BY <2>1, <2>2, Alone
<1>9. CASE UNCHANGED vars
  BY <1>a, <1>9 DEF vars, InProgress
<1> QED
  BY <1>2, <1>3, <1>4, <1>5, <1>6, <1>7, <1>8, <1>9 DEF Next, Compact

LEMMA BackupStep ==
    ASSUME ContextAssumption, TypeOK, BothHalves, OneAtATime, BackupFirst,
           [Next]_vars
    PROVE  BackupFirst'
<1> DEFINE First(d) ==
      /\ pc[d] = "archive" => backups[name[d]] = <<>>
      /\ pc[d] \in {"truncate", "rewrite"} =>
            Blocks(Moved(d)) \subseteq Blocks(backups[name[d]])
<1> SUFFICES ASSUME ~raced', NEW d \in Compactor PROVE First(d)'
  BY DEF BackupFirst
<1> USE DEF files, compacts, flags
<1>0. ~raced => First(d)
  BY DEF BackupFirst
<1>1. ASSUME data'[d] = data[d], keep'[d] = keep[d], name'[d] = name[d],
             backups' = backups, ~raced, pc'[d] = pc[d]
      PROVE  First(d)'
  <2>1. Moved(d)' = Moved(d)
    BY <1>1 DEF Moved, Cut
  <2> QED
    BY <1>0, <1>1, <2>1
<1>2. ASSUME pc'[d] \notin {"archive", "truncate", "rewrite"}
      PROVE  First(d)'
  BY <1>2
<1>3. ASSUME NEW c \in Compactor, InProgress(c), ~raced, d # c, pc'[d] = pc[d]
      PROVE  First(d)'
  <2>1. ~InProgress(d)
    BY <1>3, Alone
  <2> QED
    BY <1>2, <1>3, <2>1 DEF InProgress
<1>4. CASE Tick
  BY <1>1, <1>4 DEF Tick
<1>5. CASE AppendBlock
  BY <1>1, <1>5 DEF AppendBlock
<1>6. ASSUME NEW c \in Compactor, ReadContext(c) PROVE First(d)'
  <2>1. \A e \in Compactor : ~InProgress(e)
    BY <1>6 DEF ReadContext
  <2>2. pc'[d] \in {"idle", "backup"}
    BY <1>6, <2>1 DEF ReadContext, InProgress, TypeOK
  <2> QED
    BY <1>2, <2>2
<1>7. ASSUME NEW c \in Compactor, OpenBackup(c) PROVE First(d)'
  <2>1. InProgress(c) /\ ~raced /\ clock \in Second
    BY <1>7 DEF OpenBackup, InProgress, TypeOK
  <2>2. CASE d = c
    <3>1. pc'[d] = "archive" /\ name'[d] = clock /\ backups'[clock] = <<>>
      BY <1>7, <2>1, <2>2 DEF OpenBackup, TypeOK
    <3> QED
      BY <3>1
  <2>3. CASE d # c
    BY <1>3, <1>7, <2>1, <2>3 DEF OpenBackup, TypeOK
  <2> QED
    BY <2>2, <2>3
<1>8. ASSUME NEW c \in Compactor, WriteBackup(c) PROVE First(d)'
  <2>1. InProgress(c) /\ ~raced
    BY <1>8 DEF WriteBackup, InProgress
  <2>2. CASE d = c
    <3>1. pc'[d] = "truncate" /\ name'[d] = name[d] /\ name[d] \in Second
          /\ backups'[name[d]] = Archived(d)
      BY <1>8, <2>2 DEF WriteBackup, TypeOK
    <3>2. Moved(d)' = Moved(d)
      BY <1>8 DEF WriteBackup, Moved, Cut
    <3>3. Moved(d) \in Seq(Nat)
      BY <2>1, <2>2, Halves DEF BothHalves
    <3>4. backups[name[d]] \in Seq(Nat)
      BY <3>1 DEF TypeOK
    <3>5. \A i \in DOMAIN Moved(d) : i \in DOMAIN Archived(d)
                                     /\ Archived(d)[i] = Moved(d)[i]
      BY <3>3, <3>4, OverlayType DEF Archived
    <3>6. Blocks(Moved(d)) \subseteq Blocks(Archived(d))
      BY <3>5 DEF Blocks
    <3> QED
      BY <3>1, <3>2, <3>6 DEF Blocks
  <2>3. CASE d # c
    BY <1>3, <1>8, <2>1, <2>3 DEF WriteBackup, TypeOK
  <2> QED
    BY <2>2, <2>3
<1>9. ASSUME NEW c \in Compactor, TruncateContext(c) PROVE First(d)'
  <2>1. InProgress(c) /\ ~raced
    BY <1>9 DEF TruncateContext, InProgress
  <2>2. CASE d = c
    <3>1. pc[d] = "truncate" /\ pc'[d] = "rewrite" /\ name' = name
          /\ backups' = backups
      BY <1>9, <2>2 DEF TruncateContext, TypeOK
    <3>2. Moved(d)' = Moved(d)
      BY <1>9 DEF TruncateContext, Moved, Cut
    <3> QED
      BY <1>0, <2>1, <3>1, <3>2
  <2>3. CASE d # c
    BY <1>3, <1>9, <2>1, <2>3 DEF TruncateContext, TypeOK
  <2> QED
    BY <2>2, <2>3
<1>10. ASSUME NEW c \in Compactor, \/ RewriteContext(c) \/ Abandon(c)
                                   \/ BackupFallsShort(c) \/ RewriteFallsShort(c)
       PROVE  First(d)'
  <2>1. Idle(c) /\ raced' = raced /\ InProgress(c)
    BY <1>10 DEF RewriteContext, Abandon, BackupFallsShort, RewriteFallsShort,
                 InProgress
  <2>2. d = c => pc'[d] = "idle"
    BY <2>1, Idling
  <2>3. d # c => pc'[d] = pc[d]
    BY <2>1, Idling
  <2> QED
    BY <1>2, <1>3, <2>1, <2>2, <2>3
<1>11. CASE UNCHANGED vars
  BY <1>1, <1>11 DEF vars
<1> QED
  BY <1>4, <1>5, <1>6, <1>7, <1>8, <1>9, <1>10, <1>11 DEF Next, Compact

LEMMA EmptyStep ==
    ASSUME TypeOK, EmptyBeforeWritten, [Next]_vars
    PROVE  EmptyBeforeWritten'
<1> USE DEF files, compacts, flags
<1>1. CASE Tick
  BY <1>1 DEF Tick, EmptyBeforeWritten
<1>2. CASE AppendBlock
  BY <1>2 DEF AppendBlock, EmptyBeforeWritten
<1>3. ASSUME NEW c \in Compactor, ReadContext(c) PROVE EmptyBeforeWritten'
  BY <1>3 DEF ReadContext, EmptyBeforeWritten, TypeOK
<1>4. ASSUME NEW c \in Compactor, OpenBackup(c) PROVE EmptyBeforeWritten'
  BY <1>4 DEF OpenBackup, EmptyBeforeWritten, TypeOK
<1>5. ASSUME NEW c \in Compactor, WriteBackup(c) PROVE EmptyBeforeWritten'
  <2>1. name[c] \in exists
    BY <1>5 DEF WriteBackup, EmptyBeforeWritten
  <2> QED
    BY <1>5, <2>1 DEF WriteBackup, EmptyBeforeWritten, TypeOK
<1>6. ASSUME NEW c \in Compactor, TruncateContext(c) PROVE EmptyBeforeWritten'
  BY <1>6 DEF TruncateContext, EmptyBeforeWritten, TypeOK
<1>7. ASSUME NEW c \in Compactor, \/ RewriteContext(c) \/ Abandon(c)
                                  \/ RewriteFallsShort(c)
      PROVE  EmptyBeforeWritten'
  <2>1. Idle(c) /\ backups' = backups /\ exists' = exists
    BY <1>7 DEF RewriteContext, Abandon, RewriteFallsShort
  <2> QED
    BY <2>1, Idling DEF EmptyBeforeWritten
<1>8. CASE UNCHANGED vars
  BY <1>8 DEF vars, EmptyBeforeWritten
<1>9. ASSUME NEW c \in Compactor, BackupFallsShort(c)
      PROVE  EmptyBeforeWritten'
  <2>1. name[c] \in exists /\ exists' = exists /\ Idle(c)
    BY <1>9 DEF BackupFallsShort, EmptyBeforeWritten
  <2>2. \A s \in Second : s # name[c] => backups'[s] = backups[s]
    BY <1>9 DEF BackupFallsShort, TypeOK
  <2>3. \A d \in Compactor :
           pc'[d] \in {"archive", "truncate", "rewrite"} => name'[d] \in exists
    BY <2>1, Idling DEF EmptyBeforeWritten
  <2> QED
    BY <2>1, <2>2, <2>3 DEF EmptyBeforeWritten
<1> QED
  BY <1>1, <1>2, <1>3, <1>4, <1>5, <1>6, <1>7, <1>8, <1>9 DEF Next, Compact

-----------------------------------------------------------------------------
LEMMA LostStep ==
    ASSUME ContextAssumption, Consistent, [Next]_vars
    PROVE  NothingLost'
<1> DEFINE There(b) ==
      \/ b \in Blocks(context)
      \/ \E s \in Second : b \in Blocks(backups[s])
      \/ \E c \in Compactor : pc[c] = "rewrite" /\ b \in Blocks(Kept(c))
<1> SUFFICES ASSUME ~raced', ~torn', ~reused', NEW b \in (1..appended') \ late'
             PROVE  There(b)'
  BY DEF NothingLost
<1> USE DEF files, compacts, flags
<1>0. TypeOK /\ BothHalves /\ OneAtATime /\ ReadIsCurrent /\ BackupFirst
      /\ EmptyBeforeWritten
  BY DEF Consistent
<1>1. ~raced /\ ~torn /\ ~reused /\ b \in (1..appended) \ late => There(b)
  BY DEF Consistent, NothingLost
<1>2. ASSUME appended' = appended, late' = late, ~raced, ~torn, ~reused,
             NEW c \in Compactor, InProgress(c)
      PROVE  \/ b \in Blocks(context)
             \/ \E s \in Second : b \in Blocks(backups[s])
             \/ pc[c] = "rewrite" /\ b \in Blocks(Kept(c))
  <2>1. There(b)
    BY <1>1, <1>2
  <2>2. \A d \in Compactor : pc[d] = "rewrite" => d = c
    BY <1>0, <1>2, Alone DEF InProgress
  <2> QED
    BY <2>1, <2>2
<1>3. ASSUME appended' = appended, late' = late, ~raced, ~torn, ~reused,
             context' = context, backups' = backups, pc' = pc, data' = data,
             keep' = keep
      PROVE  There(b)'
  <2>1. \A c \in Compactor : Kept(c)' = Kept(c)
    BY <1>3 DEF Kept, Cut
  <2> QED
    BY <1>1, <1>3, <2>1
<1>4. CASE Tick
  BY <1>3, <1>4 DEF Tick
<1>5. CASE AppendBlock
  <2>1. b = appended + 1 \/ b \in (1..appended) \ late
    BY <1>0, <1>5, Appending DEF AppendBlock
  <2>2. \A c \in Compactor : Kept(c)' = Kept(c)
    BY <1>5 DEF AppendBlock, Kept, Cut
  <2>3. pc' = pc /\ backups' = backups /\ ~raced /\ ~torn /\ ~reused
    BY <1>5 DEF AppendBlock
  <2>4. Blocks(context') = Blocks(context) \cup {appended + 1}
    BY <1>0, <1>5, Appending
  <2> QED
    BY <1>1, <2>1, <2>2, <2>3, <2>4
<1>6. ASSUME NEW c \in Compactor, ReadContext(c) PROVE There(b)'
  <2>1. ~raced /\ \A d \in Compactor : ~InProgress(d)
    BY <1>6 DEF ReadContext
  <2>2. There(b)
    BY <1>1, <1>6, <2>1 DEF ReadContext
  <2>3. b \in Blocks(context) \/ \E s \in Second : b \in Blocks(backups[s])
    BY <2>1, <2>2 DEF InProgress
  <2>4. context' = context /\ backups' = backups
    BY <1>6 DEF ReadContext
  <2> QED
    BY <2>3, <2>4
<1>7. ASSUME NEW c \in Compactor, OpenBackup(c) PROVE There(b)'
  <2>1. pc[c] = "backup" /\ InProgress(c) /\ ~raced /\ ~torn /\ ~reused
        /\ clock \notin exists /\ context' = context
        /\ appended' = appended /\ late' = late
    BY <1>7 DEF OpenBackup, InProgress
  <2>2. b \in Blocks(context) \/ \E s \in Second : b \in Blocks(backups[s])
    BY <1>2, <2>1
  <2>3. backups[clock] = <<>>
    BY <1>0, <2>1 DEF TypeOK, EmptyBeforeWritten
  <2>4. \A s \in Second : b \in Blocks(backups[s]) => s # clock
    BY <2>3 DEF Blocks
  <2>5. \A s \in Second : s # clock => backups'[s] = backups[s]
    BY <1>0, <1>7 DEF OpenBackup, TypeOK
  <2>6. \A s \in Second : b \in Blocks(backups[s]) => b \in Blocks(backups'[s])
    BY <2>4, <2>5
  <2> QED
    BY <2>1, <2>2, <2>6
<1>8. ASSUME NEW c \in Compactor, WriteBackup(c) PROVE There(b)'
  <2>1. pc[c] = "archive" /\ InProgress(c) /\ ~raced /\ ~torn /\ ~reused
        /\ context' = context /\ appended' = appended /\ late' = late
    BY <1>8 DEF WriteBackup, InProgress
  <2>2. b \in Blocks(context) \/ \E s \in Second : b \in Blocks(backups[s])
    BY <1>2, <2>1
  <2>3. backups[name[c]] = <<>>
    BY <1>0, <2>1 DEF BackupFirst
  <2>4. \A s \in Second : b \in Blocks(backups[s]) => s # name[c]
    BY <2>3 DEF Blocks
  <2>5. \A s \in Second : s # name[c] => backups'[s] = backups[s]
    BY <1>0, <1>8 DEF WriteBackup, TypeOK
  <2>6. \A s \in Second : b \in Blocks(backups[s]) => b \in Blocks(backups'[s])
    BY <2>4, <2>5
  <2> QED
    BY <2>1, <2>2, <2>6
<1>9. ASSUME NEW c \in Compactor, TruncateContext(c) PROVE There(b)'
  <2>1. pc[c] = "truncate" /\ InProgress(c) /\ ~raced /\ ~torn /\ ~reused
        /\ backups' = backups /\ appended' = appended /\ late' = late
    BY <1>9 DEF TruncateContext, InProgress
  <2>2. pc'[c] = "rewrite" /\ Kept(c)' = Kept(c)
    BY <1>0, <1>9 DEF TruncateContext, TypeOK, Kept, Cut
  <2>3. CASE \E s \in Second : b \in Blocks(backups[s])
    BY <2>1, <2>3
  <2>4. CASE b \in Blocks(context)
    <3>1. PICK j \in DOMAIN context : context[j] = b
      BY <2>4 DEF Blocks
    <3>2. context[j] \notin late
      BY <2>1, <3>1
    <3>3. ~(j > Len(data[c]))
      BY <1>0, <2>1, <3>2 DEF ReadIsCurrent
    <3>4. j \in DOMAIN data[c]
      BY <1>0, <3>1, <3>3 DEF TypeOK
    <3>5. b \in Blocks(data[c])
      BY <1>0, <2>1, <3>1, <3>4 DEF ReadIsCurrent, Blocks
    <3>6. b \in Blocks(Moved(c)) \/ b \in Blocks(Kept(c))
      BY <1>0, <2>1, <3>5, Halves DEF BothHalves
    <3>7. Blocks(Moved(c)) \subseteq Blocks(backups[name[c]]) /\ name[c] \in Second
      BY <1>0, <2>1 DEF BackupFirst, TypeOK
    <3> QED
      BY <2>1, <2>2, <3>6, <3>7
  <2> QED
    BY <1>2, <2>1, <2>3, <2>4
<1>10. ASSUME NEW c \in Compactor, RewriteContext(c) PROVE There(b)'
  <2>1. pc[c] = "rewrite" /\ InProgress(c) /\ ~raced /\ ~torn /\ ~reused
        /\ backups' = backups /\ appended' = appended /\ late' = late
    BY <1>10 DEF RewriteContext, InProgress
  <2>2. b \notin Blocks(context)
    <3>1. \A j \in DOMAIN context : context[j] \in late
      BY <1>0, <2>1 DEF ReadIsCurrent
    <3> QED
      BY <2>1, <3>1 DEF Blocks
  <2>3. Blocks(Kept(c)) \subseteq Blocks(context')
    BY <1>0, <1>10, Rewriting
  <2> QED
    BY <1>2, <2>1, <2>2, <2>3
<1>11. ASSUME NEW c \in Compactor, Abandon(c) PROVE There(b)'
  <2>1. pc[c] # "rewrite" /\ InProgress(c) /\ ~raced /\ ~torn /\ ~reused
        /\ backups' = backups /\ context' = context
        /\ appended' = appended /\ late' = late
    BY <1>11 DEF Abandon
  <2> QED
    BY <1>2, <2>1
<1>12. CASE UNCHANGED vars
  BY <1>3, <1>12 DEF vars
<1>13. ASSUME NEW c \in Compactor, BackupFallsShort(c) PROVE There(b)'
  <2>1. pc[c] = "archive" /\ InProgress(c) /\ ~raced /\ ~torn /\ ~reused
        /\ context' = context /\ appended' = appended /\ late' = late
    BY <1>13 DEF BackupFallsShort, InProgress
  <2>2. b \in Blocks(context) \/ \E s \in Second : b \in Blocks(backups[s])
    BY <1>2, <2>1
  <2>3. backups[name[c]] = <<>>
    BY <1>0, <2>1 DEF BackupFirst
  <2>4. \A s \in Second : b \in Blocks(backups[s]) => s # name[c]
    BY <2>3 DEF Blocks
  <2>5. \A s \in Second : s # name[c] => backups'[s] = backups[s]
    BY <1>0, <1>13 DEF BackupFallsShort, TypeOK
  <2>6. \A s \in Second : b \in Blocks(backups[s]) => b \in Blocks(backups'[s])
    BY <2>4, <2>5
  <2> QED
    BY <2>1, <2>2, <2>6
<1>14. ASSUME NEW c \in Compactor PROVE ~RewriteFallsShort(c)
  BY DEF RewriteFallsShort
<1> QED
  BY <1>4, <1>5, <1>6, <1>7, <1>8, <1>9, <1>10, <1>11, <1>12, <1>13, <1>14 DEF Next, Compact

\* The first n blocks of a file are those of d from m + 1 on, and behind them
\* are blocks of the old file, all of them later than those of d.
HeadOf(file, old, d, m, n) ==
    /\ \A i \in 1..n : /\ i \in DOMAIN file /\ m + i \in DOMAIN d
                       /\ file[i] = d[m + i]
    /\ \A i \in DOMAIN file : i \notin 1..n =>
          i \in DOMAIN old /\ file[i] = old[i]
    /\ \A j \in DOMAIN old : \A i \in DOMAIN d : d[i] < old[j]

LEMMA HeadThenLate ==
    ASSUME NEW file \in Seq(Nat), NEW old \in Seq(Nat), NEW d \in Seq(Nat),
           NEW m \in Nat, NEW n \in Nat,
           HeadOf(file, old, d, m, n), Ascending(d), Ascending(old)
    PROVE  Ascending(file)
<1>0. \A i \in DOMAIN file : i \in Nat /\ i >= 1
  OBVIOUS
<1>1. /\ \A i \in 1..n : /\ i \in DOMAIN file /\ m + i \in DOMAIN d
                         /\ file[i] = d[m + i]
      /\ \A i \in DOMAIN file : i \notin 1..n =>
            i \in DOMAIN old /\ file[i] = old[i]
      /\ \A j \in DOMAIN old : \A i \in DOMAIN d : d[i] < old[j]
  BY DEF HeadOf
<1> SUFFICES ASSUME NEW i \in DOMAIN file, NEW j \in DOMAIN file, i < j
             PROVE  file[i] < file[j]
  BY DEF Ascending
<1>2. i \in Nat /\ i >= 1 /\ j \in Nat /\ j >= 1
  BY <1>0
<1>3. CASE j \in 1..n
  <2>1. i \in 1..n /\ m + i < m + j
    BY <1>2, <1>3
  <2> QED
    BY <1>1, <1>3, <2>1 DEF Ascending
<1>4. CASE i \in 1..n /\ j \notin 1..n
  BY <1>1, <1>4
<1>5. CASE i \notin 1..n
  <2>1. j \notin 1..n
    BY <1>1, <1>2, <1>5
  <2>2. /\ i \in DOMAIN old /\ file[i] = old[i]
        /\ j \in DOMAIN old /\ file[j] = old[j]
    BY <1>1, <1>5, <2>1
  <2> QED
    BY <1>1, <2>2 DEF Ascending
<1> QED
  BY <1>3, <1>4, <1>5

LEMMA LatestStep ==
    ASSUME ContextAssumption, Consistent, [Next]_vars
    PROVE  LatestAreRead'
<1> DEFINE Latest == Ascending(context) /\ (~short => NoGap(context))
<1> SUFFICES ASSUME ~raced' PROVE Latest'
  BY DEF LatestAreRead
<1> USE DEF files, compacts, flags
<1>0. TypeOK /\ BothHalves /\ OneAtATime /\ ReadIsGood /\ ReadIsCurrent
      /\ NoneFromTheFuture
  BY DEF Consistent
<1>1. ~raced => Latest
  BY DEF Consistent, LatestAreRead
<1>2. ASSUME ~raced, context' = context, appended' = appended, late' = late,
             short' = short
      PROVE  Latest'
  <2>1. Ascending(context)'
    BY <1>1, <1>2 DEF Ascending
  <2>2. ~short' => NoGap(context)'
    BY <1>1, <1>2 DEF NoGap
  <2> QED
    BY <2>1, <2>2
<1>3. CASE Tick
  BY <1>2, <1>3 DEF Tick
<1>4. CASE AppendBlock
  <2>1. ~raced /\ short' = short /\ late \subseteq late'
    BY <1>4 DEF AppendBlock
  <2>2. ASSUME NEW i \in DOMAIN context', NEW j \in DOMAIN context', i < j
        PROVE  context'[i] < context'[j]
    <3>1. i \in DOMAIN context
      <4>1. context \in Seq(Nat) /\ context' \in Seq(Nat)
            /\ Len(context') = Len(context) + 1
        BY <1>0, <1>4, Appending DEF TypeOK
      <4>2. Len(context) \in Nat /\ i \in Nat /\ j \in Nat /\ j <= Len(context) + 1
        BY <4>1
      <4>3. i # Len(context) + 1
        BY <2>2, <4>2
      <4>4. i \in DOMAIN context \/ i = Len(context) + 1
        BY <1>0, <1>4, Appending
      <4> QED
        BY <4>3, <4>4
    <3>2. context[i] \in Nat /\ context[i] <= appended /\ context'[i] = context[i]
      <4>1. context[i] \in Nat
        BY <1>0, <3>1 DEF TypeOK
      <4>2. context[i] <= appended
        BY <1>0, <3>1 DEF NoneFromTheFuture
      <4> QED
        BY <1>0, <1>4, <3>1, <4>1, <4>2, Appending
    <3>3. CASE j \in DOMAIN context
      BY <1>0, <1>1, <1>4, <2>1, <2>2, <3>1, <3>2, <3>3, Appending DEF Ascending
    <3>4. CASE j = Len(context) + 1
      <4>1. context'[j] = appended + 1 /\ appended \in Nat
        BY <1>0, <1>4, <3>4, Appending
      <4> QED
        BY <3>2, <4>1
    <3> QED
      BY <1>0, <1>4, <3>3, <3>4, Appending
  <2>3. ASSUME ~short, NEW b \in (1..appended') \ late', context' # <<>>,
               context'[1] <= b
        PROVE  b \in Blocks(context')
    <3>1. Blocks(context') = Blocks(context) \cup {appended + 1}
      BY <1>0, <1>4, Appending
    <3>2. b = appended + 1 \/ b \in (1..appended) \ late
      BY <1>0, <1>4, <2>1, Appending
    <3>3. CASE context = <<>>
      <4>1. context'[1] = appended + 1 /\ appended' = appended + 1
            /\ appended \in Nat
        BY <1>0, <1>4, <3>3, Appending
      <4> QED
        BY <2>3, <3>1, <4>1
    <3>4. CASE context # <<>>
      <4>1. 1 \in DOMAIN context
        BY <1>0, <3>4 DEF TypeOK
      <4>2. context'[1] = context[1]
        BY <1>0, <1>4, <4>1, Appending
      <4> QED
        BY <1>1, <2>1, <2>3, <3>1, <3>2, <3>4, <4>2 DEF NoGap
    <3> QED
      BY <3>3, <3>4
  <2>4. Ascending(context)'
    BY <2>2 DEF Ascending
  <2>5. ~short' => NoGap(context)'
    BY <2>1, <2>3 DEF NoGap, Blocks
  <2> QED
    BY <2>4, <2>5
<1>5. ASSUME NEW c \in Compactor, ReadContext(c)
      PROVE  Latest'
  BY <1>2, <1>5 DEF ReadContext
<1>6. ASSUME NEW c \in Compactor, OpenBackup(c)
      PROVE  Latest'
  BY <1>2, <1>6 DEF OpenBackup
<1>7. ASSUME NEW c \in Compactor, WriteBackup(c)
      PROVE  Latest'
  BY <1>2, <1>7 DEF WriteBackup
<1>8. ASSUME NEW c \in Compactor, TruncateContext(c)
      PROVE  Latest'
  BY <1>8 DEF TruncateContext, Ascending, NoGap
<1>9. ASSUME NEW c \in Compactor, RewriteContext(c)
      PROVE  Latest'
  <2>1. pc[c] = "rewrite" /\ InProgress(c) /\ ~raced
        /\ appended' = appended /\ late' = late /\ short' = short
    BY <1>9 DEF RewriteContext, InProgress
  <2> DEFINE k == keep[c]  m == Cut(c)  d == data[c]
  <2>2. /\ k \in Nat \ {0} /\ m \in Nat
        /\ \A i \in 1..k : /\ i \in DOMAIN context' /\ m + i \in DOMAIN d
                           /\ context'[i] = d[m + i]
        /\ \A i \in DOMAIN context' : i \notin 1..k =>
              i \in DOMAIN context /\ context'[i] = context[i]
        /\ context' \in Seq(Nat)
    BY <1>0, <1>9, Rewriting
  <2>3. Ascending(d) /\ (~short => NoGap(d)) /\ d \in Seq(Nat)
    BY <1>0, <2>1 DEF ReadIsGood, TypeOK
  <2>4. \A j \in DOMAIN context : \A i \in DOMAIN d : d[i] < context[j]
    BY <1>0, <2>1 DEF ReadIsCurrent
  <2>5. Blocks(d) = Blocks(Moved(c)) \cup Blocks(Kept(c))
        /\ Blocks(Kept(c)) \subseteq Blocks(context')
        /\ DOMAIN Moved(c) = 1..m /\ \A i \in 1..m : Moved(c)[i] = d[i]
    <3>1. k > 0 /\ Len(d) > k
      BY <1>0, <2>1 DEF BothHalves
    <3>2. /\ Blocks(d) = Blocks(Moved(c)) \cup Blocks(Kept(c))
          /\ Moved(c) \in Seq(Nat) /\ Len(Moved(c)) = m
          /\ \A i \in 1..m : Moved(c)[i] = d[i]
      BY <1>0, <3>1, Halves
    <3>3. DOMAIN Moved(c) = 1..m
      BY <3>2
    <3> QED
      BY <1>0, <1>9, <3>2, <3>3, Rewriting
  <2>6. m < Len(d) /\ DOMAIN d = 1..Len(d)
    BY <1>0, <2>1, <2>3 DEF BothHalves, Cut, TypeOK
  <2> HIDE DEF k, m, d
  <2>7. Ascending(context)'
    <3>1. \A i \in 1..k : /\ i \in DOMAIN context' /\ m + i \in DOMAIN d
                         /\ context'[i] = d[m + i]
      BY <2>2
    <3>2. context \in Seq(Nat) /\ Ascending(context) /\ k \in Nat
      BY <1>0, <1>1, <2>1, <2>2 DEF TypeOK
    <3> HIDE DEF Latest
    <3>3. context' \in Seq(Nat) /\ d \in Seq(Nat) /\ m \in Nat
          /\ Ascending(d)
      BY <2>2, <2>3
    <3>4. \A i \in DOMAIN context' : i \notin 1..k =>
             i \in DOMAIN context /\ context'[i] = context[i]
      BY <2>2
    <3>5. Ascending(context')
      <4>1. HeadOf(context', context, d, m, k)
        BY <2>4, <3>1, <3>4 DEF HeadOf
      <4> QED
        BY <3>2, <3>3, <4>1, HeadThenLate
    <3> QED
      BY <3>5 DEF Ascending
  <2>8. ASSUME ~short, NEW b \in (1..appended) \ late, context'[1] <= b
        PROVE  b \in Blocks(context')
    <3>1. context'[1] = d[m + 1] /\ m + 1 \in DOMAIN d
      BY <2>2
    <3>2. 1 \in DOMAIN d /\ d[1] \in Nat /\ d[m + 1] \in Nat /\ b \in Nat
      BY <1>0, <2>2, <2>3, <2>6, <3>1 DEF TypeOK
    <3>3. d[1] <= d[m + 1]
      <4>1. m \in Nat /\ Ascending(d)
        BY <2>2, <2>3
      <4>2. CASE m = 0
        BY <3>2, <4>2
      <4>3. CASE m # 0
        <5>1. 1 < m + 1
          BY <4>1, <4>3
        <5>2. d[1] < d[m + 1]
          BY <3>1, <3>2, <4>1, <5>1 DEF Ascending
        <5> QED
          BY <3>2, <5>2
      <4> QED
        BY <4>2, <4>3
    <3>4. d[1] <= b /\ d # <<>>
      BY <2>6, <2>8, <3>1, <3>2, <3>3
    <3>5. b \in Blocks(d)
      BY <2>3, <2>8, <3>4 DEF NoGap
    <3>6. b \notin Blocks(Moved(c))
      <4>1. ASSUME NEW i \in 1..m PROVE d[i] < b
        <5>1. i \in DOMAIN d /\ i < m + 1 /\ d[i] \in Nat
          BY <2>2, <2>3, <2>6
        <5>2. d[i] < d[m + 1]
          BY <2>3, <3>1, <5>1 DEF Ascending
        <5> QED
          BY <2>8, <3>1, <3>2, <5>1, <5>2
      <4>2. \A i \in 1..m : d[i] # b
        BY <3>2, <4>1
      <4> QED
        BY <2>5, <4>2 DEF Blocks
    <3> QED
      BY <2>5, <3>5, <3>6
  <2>9. ~short' => NoGap(context)'
    BY <2>1, <2>8 DEF NoGap, Blocks
  <2> QED
    BY <2>7, <2>9
<1>10. ASSUME NEW c \in Compactor, Abandon(c) \/ BackupFallsShort(c)
       PROVE  Latest'
  BY <1>2, <1>10 DEF Abandon, BackupFallsShort
<1>11. CASE UNCHANGED vars
  BY <1>2, <1>11 DEF vars
<1>12. ASSUME NEW c \in Compactor, RewriteFallsShort(c)
       PROVE  Latest'
  <2>1. pc[c] = "rewrite" /\ InProgress(c) /\ ~raced /\ short'
    BY <1>12 DEF RewriteFallsShort, InProgress
  <2> DEFINE m == Cut(c)  d == data[c]
  <2>2. PICK n \in 1..keep[c] :
           /\ \A i \in 1..n : /\ i \in DOMAIN context' /\ m + i \in DOMAIN d
                              /\ context'[i] = d[m + i]
           /\ \A i \in DOMAIN context' : i \notin 1..n =>
                 i \in DOMAIN context /\ context'[i] = context[i]
    BY <1>0, <1>12, FallingShort
  <2>3. context' \in Seq(Nat) /\ m \in Nat /\ keep[c] \in Nat /\ n \in Nat
    BY <1>0, <1>12, FallingShort
  <2>4. Ascending(d) /\ d \in Seq(Nat)
    BY <1>0, <2>1 DEF ReadIsGood, TypeOK
  <2>5. \A j \in DOMAIN context : \A i \in DOMAIN d : d[i] < context[j]
    BY <1>0, <2>1 DEF ReadIsCurrent
  <2> HIDE DEF m, d
  <2>6. Ascending(context)'
    <3>1. context \in Seq(Nat) /\ Ascending(context) /\ n \in Nat
      BY <1>0, <1>1, <2>1, <2>3 DEF TypeOK
    <3> HIDE DEF Latest
    <3>2. context' \in Seq(Nat) /\ d \in Seq(Nat) /\ m \in Nat
          /\ Ascending(d)
      BY <2>3, <2>4
    <3>3. \A i \in 1..n : /\ i \in DOMAIN context' /\ m + i \in DOMAIN d
                         /\ context'[i] = d[m + i]
      BY <2>2
    <3>4. \A i \in DOMAIN context' : i \notin 1..n =>
             i \in DOMAIN context /\ context'[i] = context[i]
      BY <2>2
    <3>5. Ascending(context')
      <4>1. HeadOf(context', context, d, m, n)
        BY <2>5, <3>3, <3>4 DEF HeadOf
      <4> QED
        BY <3>1, <3>2, <4>1, HeadThenLate
    <3> QED
      BY <3>5 DEF Ascending
  <2> QED
    BY <2>1, <2>6
<1> QED
  BY <1>3, <1>4, <1>5, <1>6, <1>7, <1>8, <1>9, <1>10, <1>11, <1>12 DEF Next, Compact

-----------------------------------------------------------------------------
\* The invariant holds for any number of blocks, compactions and processes.
THEOREM Inductive == Spec => []Consistent
<1>1. Init => Consistent
  BY ContextAssumption, Initial
<1>2. Consistent /\ [Next]_vars => Consistent'
  <2> SUFFICES ASSUME Consistent, [Next]_vars PROVE Consistent'
    OBVIOUS
  <2>0. /\ TypeOK /\ NoneFromTheFuture /\ BothHalves /\ OneAtATime
        /\ ReadIsGood /\ ReadIsCurrent /\ BackupFirst /\ EmptyBeforeWritten
        /\ LatestAreRead
    BY DEF Consistent
  <2>1. TypeOK'
    BY <2>0, ContextAssumption, TypeStep
  <2>2. NoneFromTheFuture'
    BY <2>0, <2>1, FutureStep
  <2>3. BothHalves'
    BY <2>0, ContextAssumption, HalvesStep
  <2>4. OneAtATime'
    BY <2>0, OneStep
  <2>5. ReadIsGood'
    BY <2>0, GoodStep
  <2>6. ReadIsCurrent'
    BY <2>0, CurrentStep
  <2>7. BackupFirst'
    BY <2>0, ContextAssumption, BackupStep
  <2>8. EmptyBeforeWritten'
    BY <2>0, EmptyStep
  <2>9. NothingLost'
    BY ContextAssumption, LostStep
  <2>10. LatestAreRead'
    BY ContextAssumption, LatestStep
  <2> QED
    BY <2>1, <2>2, <2>3, <2>4, <2>5, <2>6, <2>7, <2>8, <2>9, <2>10 DEF Consistent
<1> QED
  BY <1>1, <1>2, PTL DEF Spec

\* No block that was in the file when a compaction read it is ever lost, unless
\* two compactions overlap, take the same second, or one ends between
\* truncating the file and the end of its write.
THEOREM NoBlockLost == Spec => []NothingLost
<1>1. Consistent => NothingLost
  BY DEF Consistent
<1> QED
  BY <1>1, Inductive, PTL

\* Unless two compactions overlap a persona reads its blocks in order, and every
\* one up to some age but those that came during a compaction, whatever was
\* abandoned and wherever; but for the gap left by a compaction that ended in
\* the middle of writing blocks back.
THEOREM PersonaReadsLatest == Spec => []LatestAreRead
<1>1. Consistent => LatestAreRead
  BY DEF Consistent
<1> QED
  BY <1>1, Inductive, PTL

\* A compaction reaches its end by the rewrite or by being abandoned.
LEMMA EndOfCompaction ==
    ASSUME TypeOK, [Next]_vars, NEW c \in Compactor,
           pc[c] = "rewrite", pc'[c] = "idle", ~torn'
    PROVE  RewriteContext(c)
<1>1. ASSUME NEW d \in Compactor, d # c, Compact(d) PROVE pc'[c] = pc[c]
  BY <1>1
  DEF Compact, ReadContext, OpenBackup, WriteBackup, TruncateContext,
      RewriteContext, Abandon, BackupFallsShort, RewriteFallsShort, Idle, TypeOK
<1>2. ~Abandon(c) /\ ~BackupFallsShort(c) /\ ~RewriteFallsShort(c)
  BY DEF Abandon, BackupFallsShort, RewriteFallsShort
<1>3. Compact(c) => RewriteContext(c)
  BY <1>2
  DEF Compact, ReadContext, OpenBackup, WriteBackup, TruncateContext, InProgress
<1>4. Tick \/ AppendBlock \/ UNCHANGED vars => pc' = pc
  BY DEF Tick, AppendBlock, vars, compacts
<1> QED
  BY <1>1, <1>3, <1>4 DEF Next

\* What a compaction leaves is what it was told to keep, with nothing behind it
\* but blocks that came while it ran.
THEOREM CompactionKeeps == Spec => KeepsWhatWasAsked
<1>1. ASSUME Consistent, [Next]_vars, NEW c \in Compactor,
             pc[c] = "rewrite", pc'[c] = "idle", ~torn', ~raced
      PROVE  /\ Len(context') >= keep[c]
             /\ \A i \in DOMAIN context' :
                   IF i <= keep[c] THEN context'[i] = data[c][Cut(c) + i]
                                   ELSE context'[i] \in late
  <2>1. TypeOK /\ BothHalves /\ ReadIsCurrent /\ RewriteContext(c)
    BY <1>1, EndOfCompaction DEF Consistent
  <2>2. /\ context' \in Seq(Nat) /\ keep[c] \in Nat \ {0}
        /\ \A i \in 1..keep[c] : /\ i \in DOMAIN context'
                                 /\ context'[i] = data[c][Cut(c) + i]
        /\ \A i \in DOMAIN context' : i \notin 1..keep[c] =>
              i \in DOMAIN context /\ context'[i] = context[i]
    BY <2>1, Rewriting
  <2>3. \A j \in DOMAIN context : context[j] \in late
    BY <1>1, <2>1 DEF ReadIsCurrent, InProgress
  <2>4. DOMAIN context' = 1..Len(context') /\ Len(context') \in Nat
    BY <2>2
  <2>5. keep[c] \in DOMAIN context'
    BY <2>2
  <2> QED
    BY <2>2, <2>3, <2>4, <2>5
<1>2. Consistent /\ [Next]_vars =>
        [\A c \in Compactor :
            pc[c] = "rewrite" /\ pc'[c] = "idle" /\ ~torn' /\ ~raced =>
                /\ Len(context') >= keep[c]
                /\ \A i \in DOMAIN context' :
                      IF i <= keep[c] THEN context'[i] = data[c][Cut(c) + i]
                                      ELSE context'[i] \in late]_vars
  BY <1>1
<1> QED
  BY <1>2, Inductive, PTL DEF Spec, KeepsWhatWasAsked
=============================================================================
