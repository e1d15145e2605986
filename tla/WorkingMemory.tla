----------------------------- MODULE WorkingMemory -----------------------------
(***************************************************************************)
(* The working memory L2 of one chat (memory/working/working.py): the list *)
(* of its messages in Redis, which each turn reads, extends by two and     *)
(* writes back (memory/layers.py), and from which a background task drops  *)
(* the oldest beyond a cap and hands them to the enrichment of the         *)
(* episodic memory (memory/auto_promote.py).  Both hold the lock of the    *)
(* chat.  Turn n writes the messages 2n-1 and 2n, and schedules task n.    *)
(***************************************************************************)
EXTENDS Integers, Sequences, FiniteSets

CONSTANTS
  MaxKept,     \* WORKING_MAX_MESSAGES
  MinSurplus,  \* PROMOTE_MIN_SURPLUS
  ChunkSize,   \* PROMOTE_CHUNK_SIZE
  MaxAppends,  \* bound: turns
  MaxUpsets    \* bound: failing writes, expiries of the key, restarts

ASSUME L2Assumption ==
  MaxKept \in Nat /\ MinSurplus \in Nat \ {0} /\ ChunkSize \in Nat \ {0} /\ MaxAppends \in Nat /\ MaxUpsets \in Nat

VARIABLES
  kept,      \* the list in Redis
  chatLock,  \* 0 when free, else the turn or the task that holds it
  turnAt,    \* the turn in append_and_save_working_context
  copy,      \* the list as the holder of the lock has read and changed it
  trim,      \* trim[n]: where promotion task n is
  dropped,   \* dropped[n]: all_dropped of task n
  handed,    \* messages whose enrichment was begun, in order
  appends, upsets,
  written    \* ghost: messages whose save took effect, in order

l2vars == <<kept, chatLock, turnAt, copy, trim, dropped, handed, appends, upsets, written>>

Numbers == 1 .. MaxAppends
Turn == MaxAppends + 1     \* the turn as holder of the lock
Messages(n) == <<2 * n - 1, 2 * n>>
Elements(s) == {s[i] : i \in DOMAIN s}

L2TypeOK ==
  /\ chatLock \in 0 .. Turn /\ turnAt \in {"idle", "lock", "load", "save"}
  /\ trim \in [Numbers -> {"none", "lock", "load", "save", "yield", "enrich", "over"}]
  /\ \A s \in {kept, copy, handed, written} \cup {dropped[n] : n \in Numbers} : s \in Seq(1 .. 2 * MaxAppends)
  /\ appends \in 0 .. MaxAppends /\ upsets \in 0 .. MaxUpsets
  /\ chatLock = Turn <=> turnAt \in {"load", "save"}
  /\ \A n \in Numbers : chatLock = n <=> trim[n] \in {"load", "save", "yield"}

L2Init ==
  /\ kept = <<>> /\ copy = <<>> /\ handed = <<>> /\ written = <<>>
  /\ chatLock = 0 /\ turnAt = "idle" /\ appends = 0 /\ upsets = 0
  /\ trim = [n \in Numbers |-> "none"] /\ dropped = [n \in Numbers |-> <<>>]

--------------------------------------------------------------------------------
Upset == upsets < MaxUpsets /\ upsets' = upsets + 1

\* append_and_save_working_context
BeginAppend ==
  /\ turnAt = "idle" /\ appends < MaxAppends
  /\ appends' = appends + 1 /\ turnAt' = "lock"
  /\ UNCHANGED <<kept, chatLock, copy, trim, dropped, handed, upsets, written>>

LockForAppend ==
  /\ turnAt = "lock" /\ chatLock = 0 /\ chatLock' = Turn /\ turnAt' = "load"
  /\ UNCHANGED <<kept, copy, trim, dropped, handed, appends, upsets, written>>

LoadForAppend ==
  /\ turnAt = "load" /\ copy' = kept \o Messages(appends) /\ turnAt' = "save"
  /\ UNCHANGED <<kept, chatLock, trim, dropped, handed, appends, upsets, written>>

\* The list is saved, the lock released and the promotion scheduled.
SaveAppended ==
  /\ turnAt = "save" /\ kept' = copy /\ written' = written \o Messages(appends)
  /\ chatLock' = 0 /\ turnAt' = "idle" /\ trim' = [trim EXCEPT ![appends] = "lock"]
  /\ UNCHANGED <<copy, dropped, handed, appends, upsets>>

\* Redis fails, the turn raises; a write may have taken effect all the same.
AppendFails ==
  /\ turnAt \in {"load", "save"} /\ Upset /\ chatLock' = 0 /\ turnAt' = "idle"
  /\ \/ UNCHANGED <<kept, written>>
     \/ turnAt = "save" /\ kept' = copy /\ written' = written \o Messages(appends)
  /\ UNCHANGED <<copy, trim, dropped, handed, appends>>

--------------------------------------------------------------------------------
\* maybe_auto_promote
LockForTrim(n) ==
  /\ trim[n] = "lock" /\ chatLock = 0 /\ chatLock' = n /\ trim' = [trim EXCEPT ![n] = "load"]
  /\ UNCHANGED <<kept, turnAt, copy, dropped, handed, appends, upsets, written>>

Chunk(list) == IF ChunkSize < Len(list) - MaxKept THEN ChunkSize ELSE Len(list) - MaxKept

\* Mutant: the newest messages are dropped.
NextChunkNewest(n, list, gone) ==
  \/ /\ Len(list) > MaxKept
     /\ copy' = SubSeq(list, 1, Len(list) - Chunk(list))
     /\ dropped' = [dropped EXCEPT ![n] = gone \o SubSeq(list, Len(list) - Chunk(list) + 1, Len(list))]
     /\ trim' = [trim EXCEPT ![n] = "save"] /\ UNCHANGED chatLock
  \/ /\ Len(list) <= MaxKept
     /\ copy' = list /\ trim' = [trim EXCEPT ![n] = "enrich"] /\ chatLock' = 0 /\ UNCHANGED dropped

\* Drop the next chunk from the copy, or leave the loop and the lock.
NextChunk(n, list, gone) ==
  \/ /\ Len(list) > MaxKept
     /\ copy' = SubSeq(list, Chunk(list) + 1, Len(list))
     /\ dropped' = [dropped EXCEPT ![n] = gone \o SubSeq(list, 1, Chunk(list))]
     /\ trim' = [trim EXCEPT ![n] = "save"] /\ UNCHANGED chatLock
  \/ /\ Len(list) <= MaxKept
     /\ copy' = list /\ trim' = [trim EXCEPT ![n] = "enrich"] /\ chatLock' = 0 /\ UNCHANGED dropped

LoadForTrim(n) ==
  /\ trim[n] = "load"
  /\ \/ /\ Len(kept) - MaxKept < MinSurplus
        /\ trim' = [trim EXCEPT ![n] = "over"] /\ chatLock' = 0 /\ UNCHANGED <<copy, dropped>>
     \/ Len(kept) - MaxKept >= MinSurplus /\ NextChunk(n, kept, <<>>)
  /\ UNCHANGED <<kept, turnAt, handed, appends, upsets, written>>

SaveTrimmed(n) ==
  /\ trim[n] = "save" /\ kept' = copy /\ trim' = [trim EXCEPT ![n] = "yield"]
  /\ UNCHANGED <<chatLock, turnAt, copy, dropped, handed, appends, upsets, written>>

Yield(n) ==
  /\ trim[n] = "yield" /\ NextChunk(n, copy, dropped[n])
  /\ UNCHANGED <<kept, turnAt, handed, appends, upsets, written>>

\* pair_and_enrich_dropped, then the cached searches of the chat are cleared.
HandOver(n) ==
  /\ trim[n] = "enrich" /\ handed' = handed \o dropped[n] /\ trim' = [trim EXCEPT ![n] = "over"]
  /\ UNCHANGED <<kept, chatLock, turnAt, copy, dropped, appends, upsets, written>>

\* The task dies of an exception that nobody looks at.
TrimFails(n) ==
  /\ trim[n] \in {"load", "save"} /\ Upset /\ chatLock' = 0 /\ trim' = [trim EXCEPT ![n] = "over"]
  /\ \/ UNCHANGED kept
     \/ trim[n] = "save" /\ kept' = copy
  /\ UNCHANGED <<turnAt, copy, dropped, handed, appends, written>>

\* Tasks and lock are gone with the process.
L2Restart ==
  /\ Upset /\ chatLock' = 0 /\ turnAt' = "idle"
  /\ trim' = [n \in Numbers |-> IF trim[n] = "none" THEN "none" ELSE "over"]
  /\ UNCHANGED <<kept, copy, dropped, handed, appends, written>>

Expire ==
  /\ kept # <<>> /\ Upset /\ kept' = <<>>
  /\ UNCHANGED <<chatLock, turnAt, copy, trim, dropped, handed, appends, written>>

L2Next ==
  \/ BeginAppend \/ LockForAppend \/ LoadForAppend \/ SaveAppended \/ AppendFails
  \/ \E n \in Numbers :
       LockForTrim(n) \/ LoadForTrim(n) \/ SaveTrimmed(n) \/ Yield(n) \/ HandOver(n) \/ TrimFails(n)
  \/ L2Restart \/ Expire

L2Spec == L2Init /\ [][L2Next]_l2vars

L2Quiet == turnAt = "idle" /\ \A n \in Numbers : trim[n] \in {"none", "over"}

--------------------------------------------------------------------------------
\* What the memory holds is the end of the conversation: no message between
\* two others is missing, none is twice or out of order, whichever turns and
\* promotions overlap, fail or are cut by a restart.  After an expiry between
\* a read and its write the messages that were read come back.
HistoryIsSuffix ==
  \E n \in 0 .. Len(written) : kept = SubSeq(written, n + 1, Len(written))

\* When nothing failed, every message is still in the working memory or was
\* handed to the enrichment, and that once; and when the promotions are
\* over the memory is below the cap plus the surplus that starts one.
TrimAccounts ==
  L2Quiet /\ upsets = 0 =>
    /\ Elements(handed \o kept) = Elements(written) /\ Len(handed \o kept) = Len(written)
    /\ Len(kept) < MaxKept + MinSurplus

\* Turns and promotions share one conversation without losing any of it.
HistoryKept == L2TypeOK /\ HistoryIsSuffix /\ TrimAccounts
================================================================================
