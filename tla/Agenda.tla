------------------------------- MODULE Agenda -------------------------------
(***************************************************************************)
(* The agenda of a creator (modules/profiles): the windows of a booking    *)
(* offer, the slots that bookings take of them, and the availability that  *)
(* the profile shows.                                                      *)
(*                                                                         *)
(* A request reads the clock and what is committed, decides, and writes    *)
(* later.  Three things are left to the database: two windows of an offer  *)
(* do not overlap (an exclusion constraint), the last slot goes to one     *)
(* buyer (a conditional update, whose row lock is held until the deal is   *)
(* there too), and a window that a deal refers to is not deleted (a        *)
(* foreign key, which deals that are over hold on to as well).  Nothing is  *)
(* left to it when the deal of a booking is closed or saved: the row is    *)
(* read without a lock, and written whatever it has become.                *)
(*                                                                         *)
(* Not modelled: the deal of a booking beyond that (DealLifecycle), the    *)
(* posting that keeps one that was paid from being closed twice            *)
(* (DealTransactions), and the profile's own pause, which hides the rest.  *)
(***************************************************************************)
EXTENDS Naturals, FiniteSets

CONSTANTS
    BookingOffers,   \* booking offers of the creator
    Windows,         \* ids of windows
    Bookings,        \* deals that buyers may open
    AgendaRequests,  \* requests that may be handled at once (a bound)
    MaxSlots,        \* slots of a window (a bound)
    MaxTime          \* the last moment something starts, ends or happens (a bound)

ASSUME AgendaAssumption ==
    /\ MaxSlots \in Nat \ {0} /\ MaxTime \in Nat \ {0}
    /\ "none" \notin BookingOffers \cup Windows

VARIABLES
    time,     \* the time it is
    offered,  \* the offers that were created
    active,   \* those that are ACTIVE, and not paused
    window,   \* the row of availability_windows of each id
    booking,  \* the deal of each booking
    planning  \* the requests under way

agendaVars == <<time, offered, active, window, booking, planning>>
-----------------------------------------------------------------------------
NoWindow  == [offer |-> "none"]
NoBooking == [window |-> "none"]
NoPlan    == [phase |-> "idle"]

Times == 0 .. MaxTime

(* openWindow and the checks of the table: forward in time, with some slot. *)
WindowRow ==
    {w \in [offer : BookingOffers, from : Times, to : Times, total : 1 .. MaxSlots,
            taken : 0 .. MaxSlots] : w.from < w.to}

WindowThere(w) == window[w] # NoWindow

HasFreeSlots(w) == window[w].taken < window[w].total

IsBookableAt(w, now) == WindowThere(w) /\ window[w].to > now /\ HasFreeSlots(w)

Overlap(a, b) == a.offer = b.offer /\ a.from < b.to /\ b.from < a.to

LiveBookings(w) == {b \in Bookings : booking[b].window = w /\ booking[b].live}

AgendaInit ==
    /\ time     = 0
    /\ offered  = {}
    /\ active   = {}
    /\ window   = [w \in Windows |-> NoWindow]
    /\ booking  = [b \in Bookings |-> NoBooking]
    /\ planning = [q \in AgendaRequests |-> NoPlan]

TimeGoesOn ==
    /\ time < MaxTime
    /\ time' = time + 1
    /\ UNCHANGED <<offered, active, window, booking, planning>>

(* CreateOfferUseCase, where the new row is ACTIVE. *)
CreateOffer(o) ==
    /\ o \notin offered
    /\ offered' = offered \cup {o}
    /\ active' = active \cup {o}
    /\ UNCHANGED <<time, window, booking, planning>>

(* UpdateOfferUseCase pauses an offer or takes it up again. *)
ToggleOffer(o) ==
    /\ o \in offered
    /\ active' = IF o \in active THEN active \ {o} ELSE active \cup {o}
    /\ UNCHANGED <<time, offered, window, booking, planning>>

Plan(q, plan) ==
    /\ planning[q] = NoPlan
    /\ planning' = [planning EXCEPT ![q] = plan]
    /\ UNCHANGED <<time, offered, active, window, booking>>

EndPlan(q) == planning' = [planning EXCEPT ![q] = NoPlan]

(* CreateAvailabilityWindowUseCase: of an offer, not ending in the past ... *)
AskForWindow(q, w, row) ==
    /\ ~ WindowThere(w)
    /\ row.offer \in offered
    /\ row.to > time /\ row.taken = 0
    /\ Plan(q, [phase |-> "opening", window |-> w, row |-> row])

(* ... is opened, unless it overlaps another one of its offer by then. *)
OpenWindow(q) ==
    /\ planning[q].phase = "opening"
    /\ LET w == planning[q].window
           row == planning[q].row
           clash == \E v \in Windows : WindowThere(v) /\ (v = w \/ Overlap(window[v], row))
       IN  window' = IF clash THEN window ELSE [window EXCEPT ![w] = row]
    /\ EndPlan(q)
    /\ UNCHANGED <<time, offered, active, booking>>

(* DeleteAvailabilityWindowUseCase: nobody has a slot of it ... *)
AskToDelete(q, w) ==
    /\ WindowThere(w) /\ window[w].taken = 0
    /\ Plan(q, [phase |-> "deleting", window |-> w])

(* Mutant: no foreign key holds the window of a deal. *)
DeleteAnyWindow(q) ==
    /\ planning[q].phase = "deleting"
    /\ window' = [window EXCEPT ![planning[q].window] = NoWindow]
    /\ EndPlan(q)
    /\ UNCHANGED <<time, offered, active, booking>>

(* ... and it goes, unless a deal refers to it by then, or ever did. *)
DeleteWindow(q) ==
    /\ planning[q].phase = "deleting"
    /\ LET w == planning[q].window
       IN  window' = IF \E b \in Bookings : booking[b].window = w THEN window
                     ELSE [window EXCEPT ![w] = NoWindow]
    /\ EndPlan(q)
    /\ UNCHANGED <<time, offered, active, booking>>

(* reserveSlot finds the window of an active offer bookable ... *)
AskForSlot(q, b, w) ==
    /\ booking[b] = NoBooking
    /\ IsBookableAt(w, time)
    /\ window[w].offer \in active
    /\ Plan(q, [phase |-> "booking", booking |-> b, window |-> w])

(* ... and takeSlot takes a slot of it, with the deal, if one is left. *)
TakeSlot(q) ==
    /\ planning[q].phase = "booking"
    /\ LET w == planning[q].window
           b == planning[q].booking
       IN  IF WindowThere(w) /\ HasFreeSlots(w) /\ booking[b] = NoBooking
           THEN /\ window' = [window EXCEPT ![w].taken = @ + 1]
                /\ booking' = [booking EXCEPT ![b] = [window |-> w, live |-> TRUE,
                                                   overwritten |-> FALSE]]
           ELSE UNCHANGED <<window, booking>>
    /\ EndPlan(q)
    /\ UNCHANGED <<time, offered, active>>

(* A request reads the deal of a booking that may still be closed ... *)
AskToClose(q, b) ==
    /\ booking[b] # NoBooking /\ booking[b].live
    /\ Plan(q, [phase |-> "closing", booking |-> b])

(* ... and closes it, whatever it is by then: its slot is free (releaseFor). *)
ReleaseSlot(q) ==
    /\ planning[q].phase = "closing"
    /\ LET b == planning[q].booking
           w == booking[b].window
       IN  /\ booking' = [booking EXCEPT ![b].live = FALSE,
                                        ![b].overwritten = @ \/ ~ booking[b].live]
           /\ window' = IF window[w].taken > 0 THEN [window EXCEPT ![w].taken = @ - 1] ELSE window
    /\ EndPlan(q)
    /\ UNCHANGED <<time, offered, active>>

(* Another use case of the deal reads it ... *)
AskToSave(q, b) ==
    /\ booking[b] # NoBooking /\ booking[b].live
    /\ Plan(q, [phase |-> "saving", booking |-> b])

(* ... and writes back the status it read, or one that is no end either. *)
SaveBooking(q) ==
    /\ planning[q].phase = "saving"
    /\ LET b == planning[q].booking
       IN  booking' = [booking EXCEPT ![b].live = TRUE,
                                      ![b].overwritten = @ \/ ~ booking[b].live]
    /\ EndPlan(q)
    /\ UNCHANGED <<time, offered, active, window>>

(* The transaction fails, or its process dies. *)
DropPlan(q) ==
    /\ planning[q] # NoPlan
    /\ EndPlan(q)
    /\ UNCHANGED <<time, offered, active, window, booking>>

AgendaNext ==
    \/ TimeGoesOn
    \/ \E o \in BookingOffers : CreateOffer(o) \/ ToggleOffer(o)
    \/ \E q \in AgendaRequests, w \in Windows :
           \/ \E row \in WindowRow : AskForWindow(q, w, row)
           \/ AskToDelete(q, w)
           \/ \E b \in Bookings : AskForSlot(q, b, w)
    \/ \E q \in AgendaRequests, b \in Bookings : AskToClose(q, b) \/ AskToSave(q, b)
    \/ \E q \in AgendaRequests :
           \/ OpenWindow(q) \/ DeleteWindow(q) \/ TakeSlot(q)
           \/ ReleaseSlot(q) \/ SaveBooking(q) \/ DropPlan(q)

AgendaSpec == AgendaInit /\ [][AgendaNext]_agendaVars
-----------------------------------------------------------------------------
(* hasBookableSlots: of the offers that can be booked now, or else nothing. *)
HasBookableSlots(now) ==
    IF active = {} THEN "none"
    ELSE IF \E w \in Windows : IsBookableAt(w, now) THEN "some" ELSE "no"

(* derivedAvailability, worked out at every reading. *)
DerivedAvailability(now) == IF HasBookableSlots(now) = "no" THEN "NO_SLOTS" ELSE "AVAILABLE"

(* listUpcomingByOffer: what a buyer may choose from. *)
UpcomingWindows(o, now) == {w \in Windows : WindowThere(w) /\ window[w].offer = o /\ window[w].to > now}
-----------------------------------------------------------------------------
Plans ==
    [phase : {"opening"}, window : Windows, row : WindowRow]
        \cup [phase : {"deleting"}, window : Windows]
        \cup [phase : {"booking"}, booking : Bookings, window : Windows]
        \cup [phase : {"closing", "saving"}, booking : Bookings]

AgendaTypeOK ==
    /\ time \in Times
    /\ offered \subseteq BookingOffers /\ active \subseteq offered
    /\ window \in [Windows -> WindowRow \cup {NoWindow}]
    /\ booking \in [Bookings -> [window : Windows, live : BOOLEAN, overwritten : BOOLEAN]
                                \cup {NoBooking}]
    /\ planning \in [AgendaRequests -> Plans \cup {NoPlan}]

(* The slots taken of a window are those of its bookings, unless one of them   *)
(* was written over.                                                           *)
SlotsAreCounted(w) ==
    LET live == Cardinality(LiveBookings(w))
    IN  /\ window[w].taken <= window[w].total
        /\ window[w].taken <= live
        /\ (\A b \in Bookings : booking[b].window = w => ~ booking[b].overwritten) =>
              window[w].taken = live

(* Whatever requests run together, two windows of an offer never cover the     *)
(* same instant (RN-033), a booking has its window as long as there is a deal  *)
(* (availability.use-case.ts:148: "apagá-la deixaria Deal a apontar para o     *)
(* vazio"), and no slot is taken by nobody.  The slots taken are those of the  *)
(* bookings (RN-034), unless the row of one was written over by a request that *)
(* had read it earlier: two that close it free its slot twice, and one that    *)
(* saves it after it was closed takes it back without its slot.                *)
WindowsKeepTheirBookings ==
    /\ \A v, w \in Windows : v # w /\ WindowThere(v) /\ WindowThere(w) => ~ Overlap(window[v], window[w])
    /\ \A b \in Bookings : booking[b] # NoBooking => WindowThere(booking[b].window)
    /\ \A w \in Windows : WindowThere(w) => SlotsAreCounted(w)

(* A profile that shows no slots has sold them all: nobody is turned away from *)
(* a window that the bookings left room in (availability.ts:117).  The reverse *)
(* fails: the windows of a paused offer count as well.                         *)
NoSlotsMeansSoldOut ==
    DerivedAvailability(time) = "NO_SLOTS" =>
        \A o \in active : \A w \in UpcomingWindows(o, time) :
            Cardinality(LiveBookings(w)) >= window[w].total

(* So the agenda is what its creator and its buyers take it for (both of the   *)
(* above).                                                                     *)
WindowsAreKeptAndShown == WindowsKeepTheirBookings /\ NoSlotsMeansSoldOut
=============================================================================
