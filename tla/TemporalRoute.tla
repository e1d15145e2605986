------------------------------ MODULE TemporalRoute ------------------------------
(***************************************************************************)
(* memory/temporal_route.py: the window of time a query asks for.  The     *)
(* date parser is external: it returns fragments of the query, each with   *)
(* a moment, in their order; it may raise, and it may misread a number as  *)
(* a year.                                                                 *)
(***************************************************************************)
EXTENDS Integers, Sequences

CONSTANTS Queries  \* bound: the fragments found in a query, and in it without its last hour

(* A fragment is what is true of it: the month "mai", which is also a word, is
   in it without being one for sure; it names an hour; its year can be meant.
   Of a query: it is a digest of the channel, it ends with an hour, the parser
   raises. *)
Fragments == SUBSET {"filler", "timed", "plausible"}
ASSUME QueriesAssumption ==
  \A q \in Queries : q.flags \subseteq {"digest", "trailing", "raises"} /\ q.found \in Seq(Fragments) /\ q.again \in Seq(Fragments)

VARIABLES tstage, query,
          picked,   \* the fragment chosen so far
          interval  \* how many hours the window is wide

tempvars == <<tstage, query, picked, interval>>

NoInterval == 0
First(S) == CHOOSE i \in S : \A j \in S : i <= j

\* The places of the fragments that are not dropped.
DropFillers(found) == {i \in 1 .. Len(found) : "filler" \notin found[i]}

Hours(found) == {i \in DropFillers(found) : "timed" \in found[i]}

\* The first fragment that names an hour, or else the first.
Precise(found) == found[First(IF Hours(found) # {} THEN Hours(found) ELSE DropFillers(found))]

TempInit ==
  /\ query \in Queries /\ tstage = "asked" /\ picked = <<>> /\ interval = NoInterval

\* A digest of the channel is no question, and where nothing is found there is no window.
Parse ==
  /\ tstage = "asked"
  /\ IF query.flags \cap {"digest", "raises"} # {} \/ DropFillers(query.found) = {}
     THEN tstage' = "done" /\ UNCHANGED picked
     ELSE tstage' = "picked" /\ picked' = <<Precise(query.found)>>
  /\ UNCHANGED <<query, interval>>

\* Mutant: what the second reading finds is not checked again.
RetryTrusting ==
  /\ tstage = "picked" /\ "plausible" \notin picked[1]
  /\ tstage' = IF "trailing" \in query.flags /\ query.again # <<>> THEN "sound" ELSE "done"
  /\ picked' = IF tstage' = "sound" THEN <<query.again[1]>> ELSE picked
  /\ UNCHANGED <<query, interval>>

(* The year cannot be meant: the query is read once more without the hour it
   ends with, if it does, and given up if that does not help. *)
Retry ==
  /\ tstage = "picked" /\ "plausible" \notin picked[1]
  /\ LET kept == DropFillers(query.again)
         again == query.again[First(kept)]
     IN  IF "trailing" \in query.flags /\ kept # {} /\ "plausible" \in again
         THEN tstage' = "sound" /\ picked' = <<again>>
         ELSE tstage' = "done" /\ UNCHANGED picked
  /\ UNCHANGED <<query, interval>>

\* One hour on each side of a named hour, half a day on each side of noon.
OpenWindow ==
  /\ tstage = "sound" \/ (tstage = "picked" /\ "plausible" \in picked[1])
  /\ tstage' = "done"
  /\ interval' = IF "timed" \in picked[1] THEN 2 ELSE 24
  /\ UNCHANGED <<query, picked>>

TempNext == Parse \/ Retry \/ OpenWindow
TempSpec == TempInit /\ [][TempNext]_tempvars

(* temporal_route.py:126-200: a window never comes from the word "mai", from a
   year that cannot be meant or from a digest; where the query names an hour
   whose year can be meant, the window is the narrow one around the first such
   hour, whatever days are named beside it and whatever a retry would find; and
   one that names hours gets a day's window only when the first of them cannot
   be meant and the query was read once more without the hour at its end. *)
WindowIsMeant ==
  tstage = "done" =>
    LET hours == Hours(query.found)
        meant == hours # {} /\ "plausible" \in query.found[First(hours)]
    IN  /\ interval # NoInterval =>
             "digest" \notin query.flags /\ "filler" \notin picked[1] /\ "plausible" \in picked[1]
        /\ meant /\ query.flags \cap {"digest", "raises"} = {} =>
             interval = 2 /\ picked[1] = query.found[First(hours)]
        /\ interval = 24 => hours = {} \/ (~meant /\ "trailing" \in query.flags)

(* temporal_route.py:152: "A bare day reference must not shadow a more specific
   time-of-day fragment found elsewhere in the same query".  Of the second
   reading the first fragment is taken, hour or day. *)
HourComesFirst ==
  LET read == IF "plausible" \in Precise(query.found) THEN query.found ELSE query.again
  IN  tstage = "done" /\ interval = 24 => Hours(read) = {}
================================================================================
