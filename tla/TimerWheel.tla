------------------------------ MODULE TimerWheel ------------------------------
(***************************************************************************)
(* The timers of an event loop: the hierarchical wheel of                  *)
(* lib/common/timerwheel.c and its use in vhttp_evloop_run                 *)
(* (lib/common/socket/evloop.c.h).  A timer sits in a slot of the wheel    *)
(* whose span fits the time left; when a lower wheel wraps around, a slot  *)
(* of the next one is distributed (cascaded) over the wheels below.        *)
(*                                                                         *)
(* Each iteration of the loops of get_expired is one step.  The order of   *)
(* the timers within a slot is left out.                                   *)
(***************************************************************************)
EXTENDS Integers, FiniteSets

CONSTANTS
    Timers,      \* the timers of the application
    Slots,       \* slots per wheel, vhttp_TIMERWHEEL_SLOTS_PER_WHEEL
    NumWheels,   \* number of wheels (three in an event loop)
    Starts,      \* the times at which the loop may be created
    Delays,      \* the delays the application asks for
    MaxNow,      \* bound: the clock and the expiration times stay below
    MaxRewinds   \* bound: how often the clock of the machine is set back

\* More than one wheel, as in every use of vhttp_timerwheel_create: with one only, a
\* timer that is beyond its reach would be called early.
ASSUME WheelAssumption ==
    /\ Slots \in Nat /\ Slots > 1
    /\ NumWheels \in Nat /\ NumWheels > 1
    /\ MaxNow \in Nat /\ MaxRewinds \in Nat
    /\ Starts \subseteq 0 .. MaxNow /\ Delays \subseteq Nat

VARIABLES
    now,         \* loop->_now_millisec
    last_run,    \* until when the wheel was run
    expire_at,   \* of each timer that is linked, otherwise dead and 0
    place,       \* where each timer is linked: a slot, the list of expired timers, nowhere
    phase,       \* where the loop is: see Phases
    cursor,      \* the locals of get_expired: wheel, slot, slot_start
    rewinds,     \* how often the clock went back
    fail         \* the assertion or fatal error that was hit

wheel_vars == <<now, last_run, expire_at, place, phase, cursor, rewinds, fail>>

Wheels == 0 .. NumWheels - 1
UINT64_MAX == -1   \* no time of the model; "never"

Unlinked == <<"unlinked">>
Expired == <<"expired">>
Slot(w, s) == <<"slot", w, s>>

\* The number of ticks that one slot of a wheel stands for, Slots to the power of w.
Span[w \in 0 .. NumWheels] == IF w = 0 THEN 1 ELSE Slots * Span[w - 1]
max_ticks == Span[NumWheels - 1] * (Slots - 1)

\* The wheel is that of the highest digit of delta in base Slots.
timer_wheel(delta) ==
    IF delta = 0 THEN 0 ELSE CHOOSE w \in Wheels : Span[w] <= delta /\ delta < Span[w + 1]

timer_slot(w, expire) == (expire \div Span[w]) % Slots

\* Mutant of SlotFor: the slot is that of the time left, not of the time.
SlotForDelta(at, run) ==
    LET wheel_abs == IF at > run + max_ticks THEN run + max_ticks ELSE at
        w == timer_wheel(wheel_abs - run)
    IN Slot(w, timer_slot(w, wheel_abs - run))

\* link_timer: the slot for an expiration time, seen from a given last_run.
SlotFor(at, run) ==
    LET wheel_abs == IF at > run + max_ticks THEN run + max_ticks ELSE at
        w == timer_wheel(wheel_abs - run)
    IN Slot(w, timer_slot(w, wheel_abs))

In(w, s) == {t \in Timers : place[t] = Slot(w, s)}
Linked == {t \in Timers : place[t][1] = "slot"}

NoCursor == [wheel |-> 0, slot |-> 0, slot_start |-> 0]

WheelInit ==
    /\ now \in Starts
    /\ last_run = now
    /\ expire_at = [t \in Timers |-> 0]
    /\ place = [t \in Timers |-> Unlinked]
    /\ phase = "poll" /\ cursor = NoCursor
    /\ rewinds = 0 /\ fail = "no"

------------------------------------------------------------------------------
(* vhttp_timerwheel_get_wake_at.  `at` follows the local of that name: the   *)
(* slots of one wheel are searched from the current one, then, with the      *)
(* carry into the wheels above, those before it.                             *)

\* The first occupied slot of wheel w among lo .. hi - 1, or hi.
FirstFull(w, lo, hi) ==
    LET full == {s \in lo .. hi - 1 : In(w, s) # {}}
    IN IF full = {} THEN hi ELSE CHOOSE s \in full : \A u \in full : s <= u

\* "handle carry": a slot of a wheel above w is due at the time `at`.
CarryFull(w, at) ==
    \E wi \in w + 1 .. NumWheels - 1 :
        /\ In(wi, timer_slot(wi, at)) # {}
        /\ \A v \in w + 1 .. wi - 1 : timer_slot(v, at) = 0

Found(at) == [found |-> TRUE, at |-> at]
Onward(at) == [found |-> FALSE, at |-> at]

\* Mutant of SearchWheel: a slot that a carry distributes is not looked at.
SearchWheelNoCarry(w, at) ==
    LET base == timer_slot(w, at)
        first == FirstFull(w, base, Slots)
        carry == at + (Slots - base) * Span[w]
        second == FirstFull(w, 0, base)
    IN IF first < Slots THEN Found(at + (first - base) * Span[w])
       ELSE IF base = 0 THEN Onward(carry)
       ELSE IF second < base THEN Found(carry + second * Span[w])
       ELSE Onward(carry + Slots * Span[w])

\* Mutant of SearchWheel: the time is not advanced along the slots.
SearchWheelStuck(w, at) ==
    IF \E s \in 0 .. Slots - 1 : In(w, s) # {} THEN Found(at) ELSE Onward(at)

\* The search of one wheel: the time found, or the time the next wheel starts from.
SearchWheel(w, at) ==
    LET base == timer_slot(w, at)
        first == FirstFull(w, base, Slots)
        carry == at + (Slots - base) * Span[w]
        second == FirstFull(w, 0, base)
        carry2 == carry + Slots * Span[w]
    IN IF first < Slots THEN Found(at + (first - base) * Span[w])
       ELSE IF CarryFull(w, carry) THEN Found(carry)
       ELSE IF base = 0 THEN Onward(carry)
       ELSE IF second < base THEN Found(carry + second * Span[w])
       ELSE IF CarryFull(w, carry2) THEN Found(carry2)
       ELSE Onward(carry2)

search[w \in -1 .. NumWheels - 1] ==
    IF w = -1 THEN Onward(last_run)
    ELSE IF search[w - 1].found THEN search[w - 1] ELSE SearchWheel(w, search[w - 1].at)

get_wake_at ==
    LET r == search[NumWheels - 1] IN IF r.found THEN r.at ELSE UINT64_MAX

------------------------------------------------------------------------------
(* The loop and its callbacks.                                               *)

\* evloop_do_proceed: adjust_max_wait, poll, update_now.  Nothing happened
\* until the wake-up time ...
ProceedTimeout ==
    /\ phase = "poll" /\ get_wake_at # UINT64_MAX
    /\ now' = IF get_wake_at <= now THEN now ELSE get_wake_at
    /\ phase' = "pending"
    /\ UNCHANGED <<last_run, expire_at, place, cursor, rewinds, fail>>

\* ... or a socket became ready first, or the machine was slow ...
ProceedEvent ==
    /\ phase = "poll"
    /\ now' \in now .. MaxNow
    /\ phase' = "pending"
    /\ UNCHANGED <<last_run, expire_at, place, cursor, rewinds, fail>>

\* ... or the clock was set back by one tick.
ProceedRewind ==
    /\ phase = "poll" /\ rewinds < MaxRewinds /\ now > 0
    /\ now' = now - 1 /\ rewinds' = rewinds + 1
    /\ phase' = "pending"
    /\ UNCHANGED <<last_run, expire_at, place, cursor, fail>>

\* A callback of a socket or of a timer calls vhttp_timer_link ...
Link(t, delay) ==
    /\ phase \in {"pending", "callback"} /\ place[t] = Unlinked
    /\ LET at == now + delay
           clipped == IF at < last_run THEN last_run ELSE at
       IN /\ clipped <= MaxNow
          /\ expire_at' = [expire_at EXCEPT ![t] = clipped]
          /\ place' = [place EXCEPT ![t] = SlotFor(clipped, last_run)]
    /\ UNCHANGED <<now, last_run, phase, cursor, rewinds, fail>>

\* ... or vhttp_timer_unlink, also on a timer that waits in the list of expired ones.
Unlink(t) ==
    /\ phase \in {"pending", "callback"} /\ place[t] # Unlinked
    /\ place' = [place EXCEPT ![t] = Unlinked] /\ expire_at' = [expire_at EXCEPT ![t] = 0]
    /\ UNCHANGED <<now, last_run, phase, cursor, rewinds, fail>>

------------------------------------------------------------------------------
(* vhttp_timerwheel_get_expired                                              *)

\* Redo: search wheel w from the slot of the time `run`.
Redo(w, run) ==
    /\ phase' = "scan"
    /\ cursor' = [wheel |-> w, slot |-> timer_slot(w, run), slot_start |-> timer_slot(w, run)]

\* The list of expired timers goes back to vhttp_evloop_run, which is done if
\* it is empty.
Exit ==
    /\ phase' = IF \E t \in Timers : place'[t] = Expired THEN "expired" ELSE "poll"
    /\ cursor' = NoCursor

\* run_pending, or the last callback of a batch, is done: the timers are run,
\* unless the clock went back.
GetExpired ==
    \/ /\ phase \in {"pending", "callback"} /\ \A t \in Timers : place[t] # Expired
       /\ now >= last_run
       /\ Redo(0, last_run)
       /\ UNCHANGED <<now, last_run, expire_at, place, rewinds, fail>>
    \/ /\ phase \in {"pending", "callback"} /\ \A t \in Timers : place[t] # Expired
       /\ now < last_run
       /\ phase' = "poll"
       /\ UNCHANGED <<now, last_run, expire_at, place, cursor, rewinds, fail>>

\* The slot after this one, or the carry at the end of the wheel.
Advance ==
    IF cursor.slot + 1 < Slots
    THEN phase' = "scan" /\ cursor' = [cursor EXCEPT !.slot = @ + 1]
    ELSE phase' = "carry" /\ cursor' = cursor

\* Mutant of Collect: the slot of the current time is left for the next call.
CollectBehind ==
    /\ phase = "scan" /\ cursor.wheel = 0
    /\ place' = [t \in Timers |-> IF last_run < now /\ t \in In(0, cursor.slot)
                                   THEN Expired ELSE place[t]]
    /\ IF last_run = now THEN Exit /\ last_run' = last_run ELSE Advance /\ last_run' = last_run + 1
    /\ UNCHANGED <<now, expire_at, rewinds, fail>>

\* A slot of wheel 0 is due: all of it expires.
Collect ==
    /\ phase = "scan" /\ cursor.wheel = 0
    /\ place' = [t \in Timers |-> IF t \in In(0, cursor.slot) THEN Expired ELSE place[t]]
    /\ IF last_run = now THEN Exit /\ last_run' = last_run ELSE Advance /\ last_run' = last_run + 1
    /\ UNCHANGED <<now, expire_at, rewinds, fail>>

\* cascade_one on a set of slots at the same last_run: every timer in them is
\* linked again.
Cascade(slots) ==
    LET moved == {t \in Timers : place[t] \in slots} IN
    /\ place' = [t \in Timers |-> IF t \in moved THEN SlotFor(expire_at[t], last_run) ELSE place[t]]
    /\ fail' = IF \E t \in moved : expire_at[t] < last_run THEN "corrupt timer"
               ELSE IF \E t \in moved : place'[t] = place[t] THEN "same slot" ELSE fail

\* An occupied slot of a higher wheel is distributed and the search restarts;
\* an empty one is skipped with all of its span.
SkipOrCascade ==
    /\ phase = "scan" /\ cursor.wheel > 0
    /\ IF In(cursor.wheel, cursor.slot) # {}
       THEN /\ Cascade({Slot(cursor.wheel, cursor.slot)})
            /\ Redo(0, last_run)
            /\ UNCHANGED last_run
       ELSE LET run == last_run + Span[cursor.wheel] IN
            /\ UNCHANGED <<place, fail>>
            /\ IF run > now THEN Exit /\ last_run' = now ELSE Advance /\ last_run' = run
    /\ UNCHANGED <<now, expire_at, rewinds>>

\* cascade_all: the wheels above tick as long as those between are at slot 0.
CascadedSlots ==
    LET first == IF cursor.wheel = 0 THEN 1 ELSE cursor.wheel
        ticking == {w \in first .. NumWheels - 1 :
                        \A v \in first .. w - 1 : timer_slot(v, last_run) = 0}
    IN {Slot(w, timer_slot(w, last_run)) : w \in ticking}

Carry ==
    /\ phase = "carry"
    /\ Cascade(CascadedSlots)
    /\ IF \E t \in Timers : place[t] \in CascadedSlots THEN Redo(0, last_run) /\ UNCHANGED last_run
       ELSE IF cursor.slot_start # 0 THEN Redo(cursor.wheel, last_run) /\ UNCHANGED last_run
       ELSE IF cursor.wheel + 1 < NumWheels THEN Redo(cursor.wheel + 1, last_run) /\ UNCHANGED last_run
       ELSE Exit /\ last_run' = IF last_run < now THEN now ELSE last_run
    /\ UNCHANGED <<now, expire_at, rewinds>>

\* vhttp_evloop_run takes a timer from the list of expired ones and calls it back.
Fire(t) ==
    /\ phase \in {"expired", "callback"} /\ place[t] = Expired
    /\ place' = [place EXCEPT ![t] = Unlinked] /\ expire_at' = [expire_at EXCEPT ![t] = 0]
    /\ phase' = "callback"
    /\ UNCHANGED <<now, last_run, cursor, rewinds, fail>>

------------------------------------------------------------------------------
Scan == GetExpired \/ Collect \/ SkipOrCascade \/ Carry

WheelNext ==
    \/ ProceedTimeout \/ ProceedEvent \/ ProceedRewind
    \/ \E t \in Timers, d \in Delays : Link(t, d)
    \/ \E t \in Timers : Unlink(t) \/ Fire(t)
    \/ Scan

\* The thread runs, and polls go on: time passes, so that infinitely many of
\* them end at or after the time they were to wake up.  Nobody has to link or
\* unlink anything.
WheelFairness ==
    /\ WF_wheel_vars(Scan)
    /\ \A t \in Timers : WF_wheel_vars(Fire(t))
    /\ SF_wheel_vars(ProceedTimeout)

WheelSpec == WheelInit /\ [][WheelNext]_wheel_vars /\ WheelFairness

------------------------------------------------------------------------------
Places == {Unlinked, Expired} \cup {Slot(w, s) : w \in Wheels, s \in 0 .. Slots - 1}
Phases == {"poll", "pending", "scan", "carry", "expired", "callback"}

WheelTypeOK ==
    /\ now \in 0 .. MaxNow /\ last_run \in 0 .. MaxNow
    /\ expire_at \in [Timers -> 0 .. MaxNow]
    /\ place \in [Timers -> Places]
    /\ phase \in Phases
    /\ cursor \in [wheel : Wheels, slot : 0 .. Slots - 1, slot_start : 0 .. Slots - 1]
    /\ rewinds \in 0 .. MaxRewinds

\* calc_expire_for_slot: the first and the last time that may be linked in a
\* slot; the highest wheel also holds what is farther away.
AtMin(w, s) ==
    LET turn == last_run - (last_run % Span[w + 1]) + s * Span[w]
        past == IF w = 0 THEN turn < last_run ELSE turn <= last_run
    IN IF past THEN turn + Span[w + 1] ELSE turn
AtMax(w, s) == IF w = NumWheels - 1 THEN MaxNow ELSE AtMin(w, s) + Span[w] - 1

\* No fatal error of cascade_one ("detect the entry reassigned to the same
\* slot"), and get_expired has caught up with the clock when it returns.
CaughtUp ==
    /\ fail = "no"
    /\ phase \in {"expired", "callback"} => last_run = now
    /\ phase = "poll" /\ rewinds = 0 => last_run = now

\* What vhttp_timerwheel_validate tests: whenever the wheel is not being run,
\* each timer is in a slot whose next turn includes its time.  And each has
\* one: a timer is not linked in a slot that does not exist.
Validates ==
    /\ WheelTypeOK /\ CaughtUp
    /\ phase \in Phases \ {"scan", "carry"} =>
        \A t \in Linked :
            LET w == place[t][2]  s == place[t][3]
            IN AtMin(w, s) <= expire_at[t] /\ expire_at[t] <= AtMax(w, s)

\* get_expired finds every timer that is due and none that is not: no callback
\* comes early, and none is left for the next turn of the wheel.
ExactlyDue ==
    /\ \A t \in Timers : place[t] = Expired => expire_at[t] <= now
    /\ phase \in {"expired", "poll"} /\ now >= last_run => \A t \in Linked : expire_at[t] > now

\* The loop does not oversleep, and vhttp_evloop_destroy's assertion that no
\* wake-up time means no timers (and the other way round) is right.
WakesInTime ==
    phase = "poll" =>
        /\ (get_wake_at = UINT64_MAX) <=> (Linked = {})
        /\ \A t \in Linked : get_wake_at <= expire_at[t]

\* A linked timer is called back or unlinked by the application, as long as
\* the loop gets back to polling: it may only fail to when callbacks link
\* timers without a delay for ever.
EventuallyFires ==
    []<>(phase = "poll") =>
        \A t \in Timers : (place[t] # Unlinked) ~> (place[t] = Unlinked)
==============================================================================
