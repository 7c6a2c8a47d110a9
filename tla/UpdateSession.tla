---------------------------- MODULE UpdateSession ----------------------------
(***************************************************************************)
(* What the update service promises a host, without saying how: a device   *)
(* takes a frame, works on it in unseen steps that touch only the cells    *)
(* the frame is about, and publishes at most one answer that means what it *)
(* says.  BootUpdateService implements it; sectors, words, loop counters   *)
(* and the arming of the jump are its own affair.                          *)
(***************************************************************************)
EXTENDS BspFlash

CONSTANTS Requests, ValidVectors

VARIABLES
    flash,
    open,           \* a download session is open
    jump,           \* a jump was promised
    mode,           \* "idle", "busy", "application" or "stopped"
    request,        \* the frame being worked on
    response        \* the answer published last

vars == <<flash, open, jump, mode, request, response>>

None == [cmd |-> "none"]

Valid(mem) == [a \in VectorCells |-> mem[a]] \in ValidVectors

Blank(mem) == \A a \in AppCells : mem[a] = Erased

\* The cells of a DOWNLOAD's chunk.
Chunk(r) == {a \in AppCells : a >= r.addr /\ a < r.addr + Len(r.data)}

\* Nothing but the Flash survives a reset, and only a valid application is
\* started by itself.
Start(mem) ==
    /\ open' = FALSE /\ jump' = FALSE
    /\ request' = None /\ response' = None
    /\ mode' = "idle" \/ (mode' = "application" /\ Valid(mem))

Init ==
    /\ flash \in Image
    /\ open = FALSE /\ jump = FALSE
    /\ request = None /\ response = None
    /\ mode = "idle" \/ (mode = "application" /\ Valid(flash))

Reset == Start(flash) /\ UNCHANGED flash

\* A frame is taken.  An ERASE may close the session, and then the promise of
\* a jump is void.
Take(r) ==
    /\ mode = "idle" /\ mode' = "busy"
    /\ request' = r
    /\ \/ UNCHANGED <<open, jump>>
       \/ r.cmd = "ERASE_FLASH" /\ ~open' /\ ~jump'
    /\ UNCHANGED <<flash, response>>

\* An ERASE works on the region while the session is closed, and opens it
\* again when the region is blank.
Erase ==
    /\ mode = "busy" /\ request.cmd = "ERASE_FLASH" /\ ~open
    /\ flash' \in Image /\ \A a \in Address \ AppCells : flash'[a] = flash[a]
    /\ UNCHANGED <<open, jump, mode, request, response>>

Open ==
    /\ mode = "busy" /\ request.cmd = "ERASE_FLASH" /\ ~open
    /\ Blank(flash)
    /\ open' = TRUE
    /\ UNCHANGED <<flash, jump, mode, request, response>>

\* A DOWNLOAD of an open session clears bits inside its chunk.
Program ==
    /\ mode = "busy" /\ request.cmd = "APP_DOWNLOAD" /\ open
    /\ flash' \in Image
    /\ \A a \in Address : flash'[a] \subseteq flash[a]
    /\ \A a \in Address \ Chunk(request) : flash'[a] = flash[a]
    /\ UNCHANGED <<open, jump, mode, request, response>>

\* What an OK means, for the frame it answers.
Means(r) ==
    /\ r.cmd = "ERASE_FLASH" => open
    /\ r.cmd = "APP_DOWNLOAD" => open /\ ReadsBack(flash, r.addr, r.data)
    /\ r.cmd = "JUMP_TO_APP" => open /\ Valid(flash)

\* The answer, which promises a jump when it accepts one; or none at all.
Publish(result) ==
    /\ mode = "busy" /\ mode' = "idle"
    /\ result = "OK" => Means(request)
    /\ response' = [cmd |-> request.cmd, result |-> result]
    /\ jump' = (jump \/ (request.cmd = "JUMP_TO_APP" /\ result = "OK"))
    /\ request' = None
    /\ UNCHANGED <<flash, open>>

Drop ==
    /\ mode = "busy" /\ mode' = "idle"
    /\ response' = None /\ request' = None
    /\ UNCHANGED <<flash, open, jump>>

\* The promise is kept once, if the vector still is a vector.
Jump ==
    /\ mode = "idle" /\ jump /\ jump' = FALSE
    /\ mode' = IF Valid(flash) THEN "application" ELSE "stopped"
    /\ UNCHANGED <<flash, open, request, response>>

Next ==
    \/ \E r \in Requests : Take(r)
    \/ Erase \/ Open \/ Program
    \/ \E result \in {"OK", "ERROR", "ADDR_ERROR"} : Publish(result)
    \/ Drop \/ Jump \/ Reset

Spec == Init /\ [][Next]_vars
=============================================================================
