-------------------------------- MODULE Cursors --------------------------------
(***************************************************************************)
(* The streaming cursors of the server.  A result is read in pages, one    *)
(* page ahead of the client by a thread of its own; fetches of a handle    *)
(* take turns; a close takes the handle out of the map while others may    *)
(* still hold the cursor, which dies with its last holder.                 *)
(***************************************************************************)
EXTENDS Naturals, Sequences, FiniteSets

CONSTANTS
    Callers,           \* threads of the server that handle a call
    Chunks,            \* chunks of a result
    MaxOpen,           \* handles in the map at a time (64 in the code)
    MaxHandles,        \* bound: handles ever given out
    Nobody

CursorsAssumption ==
    /\ Nobody \notin Callers
    /\ Chunks \in Nat /\ MaxOpen \in Nat /\ MaxHandles \in Nat

VARIABLES
    open,              \* the map
    counter,           \* handles given out
    cur,               \* the cursors
    call,              \* what each caller is doing
    sent,              \* the chunks that the answers of a handle held
    ended              \* handles with an answer that says done

vars == <<open, counter, cur, call, sent, ended>>

Handles == 1 .. MaxHandles

\* size: page_rows, 0 until the first fetch.  ahead: the state of `pending`.
Fresh == [at |-> 0, done |-> FALSE, broken |-> FALSE, size |-> 0, ahead |-> "none",
          page |-> <<>>, lock |-> Nobody, dead |-> FALSE]

Idle == [pc |-> "idle", h |-> 0, page |-> <<>>]

Init ==
    /\ open = {} /\ counter = 0 /\ ended = {}
    /\ cur = [h \in Handles |-> Fresh]
    /\ call = [t \in Callers |-> Idle]
    /\ sent = [h \in Handles |-> <<>>]

Goes(t, pc) == call' = [call EXCEPT ![t].pc = pc]

Holders(h) == {t \in Callers : call[t].h = h}

-------------------------------------------------------------------------------
\* The statement has run; with too many handles it was for nothing.
OpenCursor(t) ==
    /\ call[t].pc = "idle" /\ counter < MaxHandles
    /\ Cardinality(open) < MaxOpen
    /\ counter' = counter + 1 /\ open' = open \cup {counter + 1}
    /\ UNCHANGED <<cur, call, sent, ended>>

\* FetchCursor finds the handle and shares the cursor; an unknown one throws.
Fetch(t) ==
    /\ call[t].pc = "idle"
    /\ \E h \in open : call' = [call EXCEPT ![t] = [Idle EXCEPT !.pc = "found", !.h = h]]
    /\ UNCHANGED <<open, counter, cur, sent, ended>>

\* The cursor's turn; the first fetch fixes the size of the pages.
Enter(t) == LET h == call[t].h IN
    /\ call[t].pc = "found" /\ cur[h].lock = Nobody
    /\ \E n \in {1, 2} :
          cur' = [cur EXCEPT ![h] =
                     [@ EXCEPT !.lock = t, !.size = IF cur[h].size = 0 THEN n ELSE cur[h].size]]
    /\ Goes(t, IF cur[h].ahead = "none" THEN "produce" ELSE "get")
    /\ UNCHANGED <<open, counter, sent, ended>>

\* ProducePage, at its end: the chunks up to the size of the page; the result is
\* done when a chunk was asked for and there was none.
Page(c) == IF c.done THEN <<>>
           ELSE [i \in 1 .. (IF c.at + c.size > Chunks THEN Chunks - c.at ELSE c.size) |-> c.at + i]

\* Mutant of After: the position counts full pages.
AfterFullPage(c) == [c EXCEPT !.at = @ + c.size, !.done = c.done \/ c.at + c.size > Chunks]

After(c) == [c EXCEPT !.at = @ + Len(Page(c)), !.done = c.done \/ c.at + c.size > Chunks]

\* Mutant of Failed: the error of a stream reads as its end.
EndsEarly(c) == [c EXCEPT !.done = TRUE, !.ahead = "ready", !.page = <<>>]

\* A result with an error keeps it: whoever asks again gets it again.
Failed(c) == [c EXCEPT !.broken = TRUE, !.ahead = "failed"]

Produce(t) == LET h == call[t].h IN
    /\ call[t].pc = "produce"
    /\ \/ /\ ~cur[h].broken
          /\ call' = [call EXCEPT ![t] = [@ EXCEPT !.pc = "answer", !.page = Page(cur[h])]]
          /\ cur' = [cur EXCEPT ![h] = After(@)]
       \/ /\ cur' = [cur EXCEPT ![h] = [Failed(@) EXCEPT !.ahead = "none", !.lock = Nobody]]
          /\ Goes(t, "drop")
    /\ UNCHANGED <<open, counter, sent, ended>>

\* Mutant of Ready: the page that is not there yet is produced right away.
NeverWaits(c) == TRUE

\* get() waits for the thread and takes its page, or its exception.
Ready(c) == c.ahead \in {"ready", "failed"}

Get(t) == LET h == call[t].h IN
    /\ call[t].pc = "get" /\ Ready(cur[h])
    /\ IF cur[h].ahead = "failed"
       THEN /\ cur' = [cur EXCEPT ![h] = [@ EXCEPT !.ahead = "none", !.lock = Nobody]]
            /\ Goes(t, "drop")
       ELSE IF cur[h].ahead = "ready"
       THEN /\ cur' = [cur EXCEPT ![h] = [@ EXCEPT !.ahead = "none", !.page = <<>>]]
            /\ call' = [call EXCEPT ![t] = [@ EXCEPT !.pc = "answer", !.page = cur[h].page]]
       ELSE Goes(t, "produce") /\ UNCHANGED cur
    /\ UNCHANGED <<open, counter, sent, ended>>

\* The next page is begun unless this one was the last, and the turn is over.
Answer(t) == LET h == call[t].h IN
    /\ call[t].pc = "answer"
    /\ sent' = [sent EXCEPT ![h] = @ \o call[t].page]
    /\ ended' = IF cur[h].done THEN ended \cup {h} ELSE ended
    /\ cur' = [cur EXCEPT ![h] = [@ EXCEPT !.ahead = IF cur[h].done THEN "none" ELSE "running",
                                           !.lock = Nobody]]
    /\ call' = [call EXCEPT ![t] = [@ EXCEPT !.pc = "drop", !.page = <<>>]]
    /\ UNCHANGED <<open, counter>>

\* The thread of a cursor.
Prefetch(h) ==
    /\ cur[h].ahead = "running"
    /\ \/ ~cur[h].broken /\ cur' = [cur EXCEPT ![h] = [After(@) EXCEPT !.ahead = "ready", !.page = Page(cur[h])]]
       \/ cur' = [cur EXCEPT ![h] = Failed(@)]
    /\ UNCHANGED <<open, counter, call, sent, ended>>

\* CloseCursor takes the handle out of the map; whether there was one or not is
\* not told.
CloseCursor(t) ==
    /\ call[t].pc = "idle"
    /\ \E h \in open :
          /\ open' = open \ {h}
          /\ call' = [call EXCEPT ![t] = [Idle EXCEPT !.pc = "drop", !.h = h]]
    /\ UNCHANGED <<counter, cur, sent, ended>>

\* ~future waits for the thread before the result goes.
MayDie(c) == c.ahead # "running"

\* The end of a call: the last holder of a closed cursor destroys it.
Drop(t) == LET h == call[t].h IN
    /\ call[t].pc = "drop"
    /\ IF h \notin open /\ Holders(h) = {t}
       THEN MayDie(cur[h]) /\ cur' = [cur EXCEPT ![h].dead = TRUE]
       ELSE UNCHANGED cur
    /\ call' = [call EXCEPT ![t] = Idle]
    /\ UNCHANGED <<open, counter, sent, ended>>

Next ==
    \/ \E t \in Callers :
          \/ OpenCursor(t) \/ Fetch(t) \/ Enter(t) \/ Produce(t) \/ Get(t) \/ Answer(t)
          \/ CloseCursor(t) \/ Drop(t)
    \/ \E h \in Handles : Prefetch(h)

Spec == Init /\ [][Next]_vars

-------------------------------------------------------------------------------
TypeOK ==
    /\ open \subseteq Handles /\ ended \subseteq Handles /\ counter \in 0 .. MaxHandles
    /\ Cardinality(open) <= MaxOpen
    /\ \A h \in Handles :
          /\ cur[h].ahead \in {"none", "running", "ready", "failed"}
          /\ cur[h].at \in 0 .. Chunks /\ cur[h].lock \in Callers \cup {Nobody}
    /\ \A t \in Callers : call[t].pc \in {"idle", "found", "produce", "get", "answer", "drop"}

\* One thread at a time is inside a result, the page ahead included, and none is
\* once the cursor is destroyed: with fetches and closes of one handle that
\* overlap as they like.
OneThreadPerResult ==
    \A h \in Handles : LET inside == {t \in Callers : call[t].h = h /\ call[t].pc = "produce"} IN
       /\ Cardinality(inside) + (IF cur[h].ahead = "running" THEN 1 ELSE 0) <= 1
       /\ cur[h].dead => inside = {} /\ cur[h].ahead # "running"

\* The answers of a handle put together are the result from its beginning, each
\* chunk once and in order, and one that says done was the end of it: also after
\* an error, and whoever fetched them.
PagesInOrder ==
    \A h \in Handles :
       /\ \A i \in DOMAIN sent[h] : sent[h][i] = i
       /\ h \in ended => Len(sent[h]) = Chunks
===============================================================================
