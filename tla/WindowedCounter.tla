--------------------------- MODULE WindowedCounter ---------------------------
(***************************************************************************)
(* The counters of pkg/metric/counter.go: a Counter in each window, and the  *)
(* history of those whose window is over.  The methods of the concurrent     *)
(* variant hold its lock throughout, so each is one step, for all callers.   *)
(*                                                                         *)
(* A history that is returned is a slice, which may share the array behind   *)
(* c.hist: append writes into spare room of that array.  So the model keeps   *)
(* the array and its room, and of the histories that callers hold whether they *)
(* look into it.  The array grows as Go's does, by doubling.  A method reads  *)
(* the clock once, and a time is a number of its ticks.                      *)
(***************************************************************************)
EXTENDS Integers, Sequences

CONSTANTS
    Durations,      \* lengths of a window to consider; 0 is no window
    MaxHistories,   \* values of MaxHistory to consider
    MaxAges,        \* values of MaxHistoryDuration to consider
    Amounts,        \* what is added
    MaxTime,        \* bound: the last time
    MaxAdds,        \* bound: calls of Add between Resets
    MaxHeld         \* bound: histories that callers keep

ASSUME CounterAssumption ==
    /\ Durations \subseteq Nat /\ MaxHistories \subseteq Nat /\ MaxAges \subseteq Nat
    /\ Amounts \subseteq Nat /\ MaxTime \in Nat /\ MaxAdds \in Nat /\ MaxHeld \in Nat

VARIABLES
    duration, maxHistory, maxAge,   \* the settings of the counter
    clock,
    array,      \* the array behind c.hist, as far as it was written
    room,       \* how many elements that array has
    hist,       \* c.hist: the first and the last of its elements in the array
    current,    \* c.current
    held,       \* the histories that callers hold
    began,      \* history: the time of the last Reset
    adds        \* history: what was added since, and when

config == <<duration, maxHistory, maxAge>>
vars   == <<config, clock, array, room, hist, current, held, began, adds>>

Counter(t, n) == [start |-> t, value |-> n]
None == [first |-> 1, last |-> 0]

Init ==
    /\ duration \in Durations /\ maxHistory \in MaxHistories /\ maxAge \in MaxAges
    /\ clock = 0 /\ array = <<>> /\ room = 0 /\ hist = None
    /\ current = Counter(0, 0)
    /\ held = <<>> /\ began = 0 /\ adds = <<>>

-----------------------------------------------------------------------------
(* Slices *)

Elements(s) == SubSeq(array, s.first, s.last)

\* What a caller sees of a history it holds.
Seen(h) == IF h.shared THEN Elements(h.slice) ELSE h.copy

\* Callers keep what they have when c.hist gets another array.
Detached == [k \in DOMAIN held |->
                [held[k] EXCEPT !.shared = FALSE, !.copy = Seen(held[k])]]

\* There is room behind c.hist for one element more.
Spare == hist.last < room

\* append(c.hist, *c.current) into the spare element.
Written == SubSeq(array, 1, hist.last) \o <<current>>

\* The room of the array that append makes for a full c.hist.
Grown == IF hist.last < hist.first THEN 1 ELSE 2 * (hist.last - hist.first + 1)

\* The room of a slice made from n appends.
RoomFor(n) == CHOOSE p \in {0, 1, 2, 4, 8, 16} :
                 /\ p >= n
                 /\ \A q \in {0, 1, 2, 4, 8, 16} : q >= n => p <= q

-----------------------------------------------------------------------------
(* newHistory *)

\* Mutant of Cut: the current window is not counted.
CutLate(s) ==
    IF maxHistory > 0 /\ s.last - s.first > maxHistory
    THEN [s EXCEPT !.first = s.last - maxHistory + 1] ELSE s

\* MaxHistory: the same array, further on.
Cut(s) ==
    IF maxHistory > 0 /\ s.last - s.first + 1 > maxHistory
    THEN [s EXCEPT !.first = s.last - maxHistory + 1] ELSE s

Young(c) == clock - c.start <= maxAge

\* MaxHistoryDuration: a new slice, to which the loop appends the counters that are
\* young enough.
Filter(e) ==
    LET kept[k \in 0..Len(e)] ==
          IF k = 0 THEN <<>>
          ELSE IF Young(e[k]) THEN Append(kept[k - 1], e[k]) ELSE kept[k - 1]
    IN IF maxAge > 0 THEN kept[Len(e)] ELSE e

\* What a caller is returned: a slice of the array, or one of its own.
Result(s, shared, elements) ==
    IF shared /\ maxAge = 0
    THEN [shared |-> TRUE, slice |-> Cut(s), copy |-> <<>>]
    ELSE [shared |-> FALSE, slice |-> None,
          copy |-> Filter(SubSeq(elements, Cut(s).first, Cut(s).last))]

\* A caller keeps the history it is returned, or is done with it.
Hold(h) == \/ Len(held) < MaxHeld /\ held' = Append(held, h)
           \/ UNCHANGED held

-----------------------------------------------------------------------------
End == current.start + duration

Tick ==
    /\ clock < MaxTime /\ clock' = clock + 1
    /\ UNCHANGED <<config, array, room, hist, current, held, began, adds>>

Added(n) == /\ Len(adds) < MaxAdds
            /\ adds' = Append(adds, [at |-> clock, n |-> n])

InWindow == clock < End \/ duration = 0

\* Add in the window of the current counter.
Add(n) ==
    /\ InWindow /\ Added(n)
    /\ current' = [current EXCEPT !.value = @ + n]
    /\ UNCHANGED <<config, clock, array, room, hist, held, began>>

\* Add after it: the current counter becomes history.
Roll(n) ==
    /\ ~InWindow /\ Added(n)
    /\ LET all   == IF Spare THEN Written ELSE Elements(hist) \o <<current>>
           s     == IF Spare THEN [hist EXCEPT !.last = @ + 1]
                    ELSE [first |-> 1, last |-> Len(all)]
           young == Filter(SubSeq(all, Cut(s).first, Cut(s).last))
       IN IF maxAge > 0
          THEN /\ array' = young /\ room' = RoomFor(Len(young))
               /\ hist' = [first |-> 1, last |-> Len(young)]
               /\ held' = Detached
          ELSE /\ array' = all /\ hist' = Cut(s)
               /\ IF Spare THEN UNCHANGED <<room, held>>
                  ELSE room' = Grown /\ held' = Detached
    /\ current' = Counter(clock, n)
    /\ UNCHANGED <<config, clock, began>>

\* HistoryInclusive, which also writes the current counter behind c.hist.
HistoryInclusive ==
    /\ LET elements == IF Spare THEN Written ELSE Elements(hist) \o <<current>>
           s == IF Spare THEN [hist EXCEPT !.last = @ + 1]
                ELSE [first |-> 1, last |-> Len(elements)]
       IN /\ Hold(Result(s, Spare, elements))
          /\ array' = IF Spare THEN elements ELSE array
    /\ UNCHANGED <<config, clock, room, hist, current, began, adds>>

\* History: with the current counter only if its window is over.
History ==
    IF clock > End \/ duration = 0
    THEN HistoryInclusive
    ELSE /\ Hold(Result(hist, TRUE, array))
         /\ UNCHANGED <<config, clock, array, room, hist, current, began, adds>>

\* Mutant of Reset: the history is emptied in place.
ResetInPlace ==
    /\ hist' = None /\ current' = Counter(clock, 0)
    /\ began' = clock /\ adds' = <<>>
    /\ UNCHANGED <<config, clock, array, room, held>>

Reset ==
    /\ array' = <<>> /\ room' = 0 /\ hist' = None /\ held' = Detached
    /\ current' = Counter(clock, 0)
    /\ began' = clock /\ adds' = <<>>
    /\ UNCHANGED <<config, clock>>

Next ==
    \/ Tick \/ HistoryInclusive \/ History \/ Reset
    \/ \E n \in Amounts : Add(n) \/ Roll(n)

Spec == Init /\ [][Next]_vars

\* Value, which changes nothing.
Value == IF clock > End THEN 0 ELSE current.value
-----------------------------------------------------------------------------
(* Properties *)

\* An observation belongs to the last window, or opens the next one if it comes at
\* its end or later.
Observe(length, ws, a) ==
    LET w == ws[Len(ws)]
    IN IF length = 0 \/ a.at < w.start + length
       THEN [ws EXCEPT ![Len(ws)].value = @ + a.n]
       ELSE Append(ws, Counter(a.at, a.n))

\* The windows of what was added since start.
WindowsOf(length, start, xs) ==
    LET after[k \in 0..Len(xs)] ==
          IF k = 0 THEN <<Counter(start, 0)>> ELSE Observe(length, after[k - 1], xs[k])
    IN after[Len(xs)]

\* All windows since Reset.
Windows == WindowsOf(duration, began, adds)

\* Those that a caller may be shown: young enough, and with fewer than MaxHistory
\* later ones.
Shown(ws) ==
    {k \in DOMAIN ws : /\ maxAge > 0 => clock - ws[k].start <= maxAge
                       /\ maxHistory > 0 => k > Len(ws) - maxHistory}

\* The history is that of all that was added: no count is lost, repeated or put into
\* a neighbouring window, and the limits that each roll applies to the stored
\* history leave exactly what they would leave of the complete one
\* (counter.go 57-66, 88-138).
HistoryIsExact ==
    LET all  == Elements(hist) \o <<current>>
        seen == Filter(SubSeq(all, Cut([first |-> 1, last |-> Len(all)]).first, Len(all)))
        from == Len(Windows) - Len(seen) + 1
    IN /\ Windows[Len(Windows)] = current
       /\ seen = SubSeq(Windows, from, Len(Windows))
       /\ Shown(Windows) = from..Len(Windows)

\* A history that a caller holds keeps its windows whatever other callers do, although
\* it may share its array with the counter: counts of closed windows never change, and
\* only the last one, if it was still open, may grow (counter.go 88-118, 207-217).
HeldHistoriesStand ==
    [][\A k \in DOMAIN held :
          LET old == Seen(held[k])  new == Seen(held[k])'
          IN /\ Len(new) = Len(old)
             /\ \A j \in DOMAIN old :
                   /\ new[j].start = old[j].start
                   /\ new[j].value >= old[j].value
                   /\ j < Len(old) => new[j] = old[j]]_vars

-----------------------------------------------------------------------------
(* What the documentation says, and the code does not do *)

\* A history is safe to use while others use the counter (counter.go 183).
HeldHistoriesFixed ==
    [][\A k \in DOMAIN held : Seen(held[k])' = Seen(held[k])]_vars

\* Without windowing it acts as a monotonically increasing counter (counter.go 60-61).
ActsAsCounter == duration = 0 => Value = current.value
=============================================================================
