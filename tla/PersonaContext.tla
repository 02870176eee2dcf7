--------------------------- MODULE PersonaContext ---------------------------
(***************************************************************************)
(* A persona's context file and its backups (internal/persona/persona.go): *)
(* Append by the daemon's drainer, by `tillr persona append` and by the    *)
(* web server, Compact by `tillr persona compact`, in processes of their   *)
(* own and with no lock between them.                                      *)
(*                                                                         *)
(* A file is the sequence of its "## " blocks; blocks are numbered in the  *)
(* order of their Append.  What stands before the first block, such as the *)
(* stub a compaction leaves, is not a block and is left out.  os.WriteFile *)
(* is two steps: open with O_TRUNC, and write.  A write that fails, or in  *)
(* which the process dies, leaves the first n of its blocks, the n-th      *)
(* perhaps cut short; an Append, that is one block or none.                *)
(***************************************************************************)
EXTENDS Naturals, Sequences

CONSTANTS
    Compactor,  \* processes that run `tillr persona compact`
    Keep,       \* the values given for --keep
    Second,     \* bound: the clock, in seconds
    MaxBlocks,  \* bound: how many blocks are appended
    MaxCompacts \* bound: how many compactions are started

ASSUME ContextAssumption ==
    /\ Keep \subseteq Nat \ {0}
    /\ Second \subseteq Nat
    /\ 0 \in Second
    /\ MaxBlocks \in Nat
    /\ MaxCompacts \in Nat

VARIABLES
    context,    \* the blocks of context.md
    backups,    \* the blocks of context.md.pre-compact-<second>
    exists,     \* the seconds for which there is a backup
    clock,      \* the time, in seconds
    pc,         \* where each compaction stands, "idle" if there is none
    data,       \* what it has read
    keep,       \* its --keep
    name,       \* the second in its backup's name
    appended,   \* how many blocks have been appended
    started,    \* how many compactions have been started
    late,       \* the blocks appended while a compaction was under way
    raced,      \* two compactions were under way at once
    torn,       \* a compaction ended after truncating, short of its end
    short,      \* ... in the middle of writing its blocks back
    reused      \* a backup was opened whose name was already taken

files    == <<context, backups, exists>>
compacts == <<pc, data, keep, name>>
flags    == <<raced, torn, short, reused>>
vars     == <<files, clock, compacts, appended, started, late, flags>>

Init ==
    /\ context = <<>>
    /\ backups = [s \in Second |-> <<>>] /\ exists = {}
    /\ clock = 0
    /\ pc = [c \in Compactor |-> "idle"]
    /\ data = [c \in Compactor |-> <<>>]
    /\ keep = [c \in Compactor |-> 0]
    /\ name = [c \in Compactor |-> 0]
    /\ appended = 0 /\ started = 0
    /\ late = {} /\ raced = FALSE /\ torn = FALSE
    /\ short = FALSE /\ reused = FALSE

Blocks(file) == {file[i] : i \in DOMAIN file}

\* A write at offset 0 of what is not empty any more: the new text covers the
\* head of the old; blocks are taken to be equally long.
Overlay(old, new) ==
    [i \in 1..(IF Len(old) > Len(new) THEN Len(old) ELSE Len(new)) |->
        IF i <= Len(new) THEN new[i] ELSE old[i]]

\* How a compaction divides what it has read.
Cut(c)   == Len(data[c]) - keep[c]
Moved(c) == SubSeq(data[c], 1, Cut(c))

\* Mutation: one block too few is kept.
KeptOneShort(c) == SubSeq(data[c], Cut(c) + 2, Len(data[c]))

\* Mutation: the oldest blocks are kept.
KeptOldest(c) == SubSeq(data[c], 1, keep[c])

Kept(c)  == SubSeq(data[c], Cut(c) + 1, Len(data[c]))

InProgress(c) == pc[c] # "idle"

-----------------------------------------------------------------------------
Tick ==
    /\ clock + 1 \in Second
    /\ clock' = clock + 1
    /\ UNCHANGED <<files, compacts, appended, started, late, flags>>

\* Mutation: Append opens the file without O_APPEND.
PutFirst(b) == Overlay(context, <<b>>)

\* O_APPEND: one write at the end of the file.
PutLast(b) == Append(context, b)

AppendBlock ==
    /\ appended < MaxBlocks
    /\ appended' = appended + 1
    /\ context' = PutLast(appended')
    /\ late' = IF \E c \in Compactor : InProgress(c)
               THEN late \cup {appended'} ELSE late
    /\ UNCHANGED <<backups, exists, clock, compacts, started, flags>>

-----------------------------------------------------------------------------
(* Compact.                                                                 *)

\* The file is read and divided; with no more than keep blocks that is all.
ReadContext(c) ==
    /\ ~InProgress(c)
    /\ started < MaxCompacts
    /\ started' = started + 1
    /\ \E k \in Keep :
          /\ Len(context) > k
          /\ keep' = [keep EXCEPT ![c] = k]
    /\ data' = [data EXCEPT ![c] = context]
    /\ pc' = [pc EXCEPT ![c] = "backup"]
    /\ raced' = (raced \/ \E d \in Compactor : InProgress(d))
    /\ UNCHANGED <<files, clock, name, appended, late, torn, short,
                   reused>>

\* The backup is opened under a name made of the present second ...
OpenBackup(c) ==
    /\ pc[c] = "backup"
    /\ name' = [name EXCEPT ![c] = clock]
    /\ reused' = (reused \/ clock \in exists)
    /\ exists' = exists \cup {clock}
    /\ backups' = [backups EXCEPT ![clock] = <<>>]
    /\ pc' = [pc EXCEPT ![c] = "archive"]
    /\ UNCHANGED <<context, clock, data, keep, appended, started, late,
                   raced, torn, short>>

\* Mutation: the backup is left empty.
NothingArchived(c) == backups[name[c]]

\* What the backup holds after the write.
Archived(c) == Overlay(backups[name[c]], Moved(c))

\* ... and the older blocks are written to it.
WriteBackup(c) ==
    /\ pc[c] = "archive"
    /\ backups' = [backups EXCEPT ![name[c]] = Archived(c)]
    /\ pc' = [pc EXCEPT ![c] = "truncate"]
    /\ UNCHANGED <<context, exists, clock, data, keep, name, appended, started,
                   late, flags>>

\* The context file is truncated ...
TruncateContext(c) ==
    /\ pc[c] = "truncate"
    /\ context' = <<>>
    /\ pc' = [pc EXCEPT ![c] = "rewrite"]
    /\ UNCHANGED <<backups, exists, clock, data, keep, name, appended, started,
                   late, flags>>

Idle(c) ==
    /\ pc' = [pc EXCEPT ![c] = "idle"]
    /\ data' = [data EXCEPT ![c] = <<>>]
    /\ keep' = [keep EXCEPT ![c] = 0]
    /\ name' = [name EXCEPT ![c] = 0]

\* ... and the newer blocks are written back.
RewriteContext(c) ==
    /\ pc[c] = "rewrite"
    /\ context' = Overlay(context, Kept(c))
    /\ Idle(c)
    /\ UNCHANGED <<backups, exists, clock, appended, started, late, flags>>

\* A write of the backup that ends after some of the blocks ...
BackupFallsShort(c) ==
    /\ pc[c] = "archive"
    /\ \E n \in 1..Cut(c) :
          backups' = [backups EXCEPT ![name[c]] =
                         Overlay(@, SubSeq(Moved(c), 1, n))]
    /\ Idle(c)
    /\ UNCHANGED <<context, exists, clock, appended, started, late, flags>>

\* ... and one of the context file: the oldest of the kept blocks are there.
RewriteFallsShort(c) ==
    /\ pc[c] = "rewrite"
    /\ \E n \in 1..keep[c] :
          context' = Overlay(context, SubSeq(Kept(c), 1, n))
    /\ torn' = TRUE /\ short' = TRUE
    /\ Idle(c)
    /\ UNCHANGED <<backups, exists, clock, appended, started, late, raced,
                   reused>>

\* A failing read or write, or the end of the process, at any point, with
\* nothing done of the next step.
Abandon(c) ==
    /\ InProgress(c)
    /\ Idle(c)
    /\ torn' = (torn \/ pc[c] = "rewrite")
    /\ UNCHANGED <<files, clock, appended, started, late, raced, short, reused>>

Compact(c) ==
    \/ ReadContext(c) \/ OpenBackup(c)
    \/ WriteBackup(c) \/ BackupFallsShort(c)
    \/ TruncateContext(c)
    \/ RewriteContext(c) \/ RewriteFallsShort(c)
    \/ Abandon(c)

Next == Tick \/ AppendBlock \/ \E c \in Compactor : Compact(c)

Spec == Init /\ [][Next]_vars

-----------------------------------------------------------------------------
(* Properties.                                                              *)

\* "Archives older blocks to a backup, keeping the most recent": a block is in
\* the context file or in a backup, or in the hands of the compaction that is
\* about to write it back; an abandoned compaction loses nothing until it has
\* truncated the file.  Blocks appended while a compaction is under way are at
\* its mercy, and no others.  The code promises this only of compactions that
\* do not overlap and do not start in the same second.
NothingLost ==
    ~raced /\ ~torn /\ ~reused =>
        \A b \in (1..appended) \ late :
            \/ b \in Blocks(context)
            \/ \E s \in Second : b \in Blocks(backups[s])
            \/ \E c \in Compactor : pc[c] = "rewrite" /\ b \in Blocks(Kept(c))

Ascending(file) == \A i, j \in DOMAIN file : i < j => file[i] < file[j]

\* From the first of them on, a file has every block that was not late.
NoGap(file) ==
    \A b \in (1..appended) \ late :
        file # <<>> /\ file[1] <= b => b \in Blocks(file)

\* What a persona reads are its blocks in the order they were appended, and
\* every one up to some age but those that came during a compaction; also when
\* a compaction was abandoned, before or after it had truncated the file, or
\* reused a backup.  Only one that ended in the middle of writing the blocks
\* back leaves a gap: the newest are missing.
LatestAreRead == ~raced => Ascending(context) /\ (~short => NoGap(context))

\* "Keeping the most recent": what a compaction that is not overlapped leaves
\* begins with the very blocks it was told to keep, all of them, and goes on
\* with nothing but blocks that came while it ran.  Compact reports an error
\* of any that falls short.
KeepsWhatWasAsked ==
    [][\A c \in Compactor :
          pc[c] = "rewrite" /\ pc'[c] = "idle" /\ ~torn' /\ ~raced =>
              /\ Len(context') >= keep[c]
              /\ \A i \in DOMAIN context' :
                    IF i <= keep[c] THEN context'[i] = data[c][Cut(c) + i]
                                    ELSE context'[i] \in late]_vars

-----------------------------------------------------------------------------
(* The inductive invariant.                                                 *)

Step == {"idle", "backup", "archive", "truncate", "rewrite"}

TypeOK ==
    /\ context \in Seq(Nat)
    /\ backups \in [Second -> Seq(Nat)]
    /\ exists \in SUBSET Second
    /\ clock \in Second
    /\ pc \in [Compactor -> Step]
    /\ data \in [Compactor -> Seq(Nat)]
    /\ keep \in [Compactor -> Nat]
    /\ name \in [Compactor -> Second]
    /\ appended \in Nat /\ started \in Nat
    /\ late \in SUBSET Nat
    /\ raced \in BOOLEAN /\ torn \in BOOLEAN
    /\ short \in BOOLEAN /\ reused \in BOOLEAN

\* No file is ahead of the appends.
NoneFromTheFuture ==
    /\ \A i \in DOMAIN context : context[i] <= appended
    /\ \A c \in Compactor : \A i \in DOMAIN data[c] : data[c][i] <= appended

\* A compaction has something to archive and something to keep.
BothHalves ==
    \A c \in Compactor : InProgress(c) =>
        keep[c] > 0 /\ Len(data[c]) > keep[c]

OneAtATime ==
    ~raced => \A c, d \in Compactor : InProgress(c) /\ InProgress(d) => c = d

\* What a compaction has read is fit to be written back.
ReadIsGood ==
    ~raced => \A c \in Compactor : InProgress(c) =>
                  Ascending(data[c]) /\ (~short => NoGap(data[c]))

\* The file has what the compaction read until it truncates it, and beyond that
\* only what was appended since.
ReadIsCurrent ==
    ~raced => \A c \in Compactor : InProgress(c) =>
        /\ pc[c] # "rewrite" =>
              /\ Len(data[c]) <= Len(context)
              /\ \A i \in DOMAIN data[c] : context[i] = data[c][i]
        /\ \A j \in DOMAIN context : pc[c] = "rewrite" \/ j > Len(data[c]) =>
              /\ context[j] \in late
              /\ \A i \in DOMAIN data[c] : data[c][i] < context[j]

\* The file is truncated only when the backup has been written.
BackupFirst ==
    ~raced => \A c \in Compactor :
        /\ pc[c] = "archive" => backups[name[c]] = <<>>
        /\ pc[c] \in {"truncate", "rewrite"} =>
              Blocks(Moved(c)) \subseteq Blocks(backups[name[c]])

\* A backup that is not there holds nothing, and is not the one in hand.
EmptyBeforeWritten ==
    /\ \A s \in Second : s \notin exists => backups[s] = <<>>
    /\ \A c \in Compactor :
          pc[c] \in {"archive", "truncate", "rewrite"} => name[c] \in exists

Consistent ==
    /\ TypeOK /\ NoneFromTheFuture /\ BothHalves /\ OneAtATime
    /\ ReadIsGood /\ ReadIsCurrent /\ BackupFirst /\ EmptyBeforeWritten
    /\ NothingLost /\ LatestAreRead
=============================================================================
