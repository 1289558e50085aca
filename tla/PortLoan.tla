------------------------------- MODULE PortLoan -------------------------------
(***************************************************************************)
(* The OpenFan poll loop as the owner of the port slot (polling.rs,        *)
(* `openfan_poll_loop_with`), and the lending of the port to a firmware    *)
(* update (serial/port_loan.rs).                                           *)
(*                                                                         *)
(* A transport is "port" while it is open on the board as it runs now, and *)
(* "stale" once the board restarted under it.  The slot may also hold the  *)
(* placeholders: "lent" (MaintenanceTransport), "empty" (Disconnected-     *)
(* Transport), or "none" when no controller was adopted.                   *)
(***************************************************************************)
EXTENDS MaintenanceClaim

CONSTANT Channels

VARIABLES
    board,     \* what the board's USB port holds: "firmware", "boot", "empty"
    talks,     \* its firmware answers Control-OFC's commands
    duty,      \* each channel: "full", "profile", or "unknown" since a restart
    slot,      \* the transport in the port slot
    loop,      \* the poll loop: "none", "starting", "idle", "swapped", "lent"
    ask,       \* the request: "none", "queued", "taken", "loan", "refused"
    accepts,   \* its accept_disconnected
    waiting,   \* the borrower still listens for the answer
    passing,   \* the transport inside an answer or a hand-back
    back,      \* what was handed back: "none", "port", "nothing"
    settled    \* the loop has acted on the hand-back

loanVars == <<slot, loop, ask, accepts, waiting, passing, back, settled>>
boardVars == <<board, talks, duty>>

Unknown == [c \in Channels |-> "unknown"]
Answers(t) == t = "port" /\ board = "firmware" /\ talks
Restarted(t) == IF t = "port" THEN "stale" ELSE t

----------------------------------------------------------------------------
(* The loop between loans. *)

(* The adopted controller's loop publishes its first report. *)
LoopStarts ==
    /\ loop = "starting" /\ loop' = "idle"
    /\ set_openfan_link("connected")
    /\ UNCHANGED <<boardVars, slot, ask, accepts, waiting, passing, back, settled>>

AfterPoll(ok) ==
    IF ok THEN "connected" ELSE IF link = "connected" THEN "unresponsive" ELSE "reconnecting"

Poll ==
    /\ loop = "idle" /\ link # "reconnecting"
    /\ set_openfan_link(AfterPoll(Answers(slot)))
    /\ UNCHANGED <<boardVars, loanVars>>

(* A reconnect attempt: the adopted port is closed first, then the node is *)
(* opened again and asked.  `others`: someone else has the node open.      *)
Reconnect(others) ==
    LET found == board = "firmware" /\ talks /\ ~others
    IN  /\ loop = "idle" /\ link = "reconnecting"
        /\ slot' = IF found THEN "port" ELSE "empty"
        /\ set_openfan_link(IF found THEN "connected" ELSE "reconnecting")
        /\ duty' = IF found THEN Unknown ELSE duty
        /\ UNCHANGED <<board, talks, loop, ask, accepts, waiting, passing, back, settled>>

----------------------------------------------------------------------------
(* Lending. *)

(* request, up to its wait.  The channel holds one request. *)
Request(any) ==
    /\ ask = "none"
    /\ ask' = "queued" /\ waiting' = TRUE /\ accepts' = any
    /\ UNCHANGED <<slot, loop, passing, back, settled>>

(* lend: refused, or the port is taken out of the slot. *)
LendTakes ==
    /\ loop = "idle" /\ ask = "queued"
    /\ IF link = "connected" \/ accepts
       THEN /\ passing' = slot /\ slot' = "lent" /\ loop' = "swapped" /\ ask' = "taken"
       ELSE /\ ask' = IF waiting THEN "refused" ELSE "none"
            /\ UNCHANGED <<slot, loop, passing>>
    /\ UNCHANGED <<boardVars, accepts, waiting, back, settled, link, claim>>

(* The answer is sent, or put back when nobody listens any more. *)
LendAnswers ==
    /\ loop = "swapped"
    /\ IF waiting
       THEN ask' = "loan" /\ loop' = "lent" /\ settled' = FALSE /\ UNCHANGED <<slot, passing>>
       ELSE /\ ask' = "none" /\ loop' = "idle" /\ slot' = passing /\ passing' = "none"
            /\ UNCHANGED settled
    /\ UNCHANGED <<boardVars, accepts, waiting, back, link, claim>>

(* A port came back, or nothing did. *)
LoanEnds ==
    /\ loop = "lent" /\ back # "none"
    /\ loop' = "idle" /\ settled' = TRUE /\ back' = "none"
    /\ slot' = IF back = "port" THEN passing ELSE "empty"
    /\ passing' = "none"
    /\ duty' = IF back = "port" THEN Unknown ELSE duty
    /\ set_openfan_link(IF back = "port" THEN "connected" ELSE "reconnecting")
    /\ UNCHANGED <<board, talks, ask, accepts, waiting>>

(* The stop signal ends the loop, a loan it has out included. *)
LoopStops ==
    /\ loop \in {"starting", "idle", "lent"}
    /\ loop' = "none"
    /\ UNCHANGED <<boardVars, slot, ask, accepts, waiting, passing, back, settled, link, claim>>

LenderStep == LendTakes \/ LendAnswers \/ LoanEnds

----------------------------------------------------------------------------
(* The borrower's ends of the exchange, as parts of its actions. *)

(* The borrower stops listening, with the transport of a loan it takes. *)
StopsListening(took) ==
    /\ waiting' = FALSE
    /\ ask' = IF ask \in {"loan", "refused"} THEN "none" ELSE ask
    /\ passing' = IF took THEN "none" ELSE passing
    /\ UNCHANGED <<slot, loop, accepts, back, settled>>

(* give_back, up to its wait.  Nothing is heard once the loop is gone. *)
GivesBack(what, t) ==
    /\ IF loop = "lent" THEN back' = what /\ passing' = t ELSE UNCHANGED <<back, passing>>
    /\ UNCHANGED <<slot, loop, ask, accepts, waiting, settled>>
=============================================================================
