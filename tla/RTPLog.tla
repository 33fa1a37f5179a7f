------------------------------- MODULE RTPLog -------------------------------
(***************************************************************************)
(* The logging goroutine of the RTP log interceptor,                       *)
(* internal/utils/rtp_log_interceptor.go, as the goroutines that log and   *)
(* the one that calls Close see it.  All four channels are unbuffered: an  *)
(* entry is handed over when the loop is at its select, and not otherwise. *)
(***************************************************************************)

VARIABLES
  done,     \* the channel done is closed
  logLoop   \* where the loop is: "select", "closing" (sending on closed), "gone"

logVars == <<done, logLoop>>

LogTyped == done \in BOOLEAN /\ logLoop \in {"select", "closing", "gone"}

LogInit == done = FALSE /\ logLoop = "select"

(* r.rtpIn <- p and its like: what a goroutine that logs waits for.        *)
LogTakes == logLoop = "select"

(* Close, up to its wait.                                                  *)
LogCloseBegin == done' = TRUE /\ UNCHANGED logLoop

(* The select picks done: the deferred send on closed comes next.          *)
LogLeave ==
  /\ logLoop = "select"
  /\ done
  /\ logLoop' = "closing"
  /\ UNCHANGED done

(* <-r.closed: the rendezvous of Close with the deferred send.             *)
LogCloseReturn ==
  /\ logLoop = "closing"
  /\ logLoop' = "gone"
  /\ UNCHANGED done
=============================================================================
