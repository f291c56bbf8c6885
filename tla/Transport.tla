------------------------------ MODULE Transport ------------------------------
(***************************************************************************)
(* The typed boundary of the UI (ui/app/src/ipc.ts): how long a request    *)
(* may take and how what comes back of it is reported.  A reply is what    *)
(* the transport experienced; the native transport (Tauri) has no deadline *)
(* and reports a refusal only, HTTP has both.                              *)
(***************************************************************************)
EXTENDS Integers

\* The code the shell names wins; otherwise the status decides.
HttpErrorCode(named, status) ==
    CASE named # "none" -> named
      [] named = "none" /\ status = 415 -> "UNSUPPORTED_MEDIA_TYPE"
      [] named = "none" /\ status = 411 -> "LENGTH_REQUIRED"
      [] named = "none" /\ status = 413 -> "PAYLOAD_TOO_LARGE"
      [] named = "none" /\ status = 400 -> "INVALID_REQUEST"
      [] OTHER -> "BACKEND_ERROR"

IpcErrorCode(reply) ==
    CASE reply = "aborted" -> "TIMEOUT"
      [] reply = "unreachable" -> "BACKEND_UNAVAILABLE"
      [] OTHER -> HttpErrorCode("none", 500)

\* What may become of a request: an answer, a refusal, and over HTTP neither.
Replies(native) == {"ok", "refused"} \cup (IF native THEN {} ELSE {"aborted", "unreachable"})
=============================================================================
