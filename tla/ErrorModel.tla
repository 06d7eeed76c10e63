----------------------------- MODULE ErrorModel -----------------------------
(***************************************************************************)
(* How an error is classified, carried over the wire and answered: the     *)
(* registry, New and Wrap, the JSON-RPC encoding and its inverse, and the  *)
(* decision matrix. A task runs on a sidecar; its error is born there,     *)
(* crosses one or two connections, may be wrapped by the host, and is then *)
(* put to Decide. The scheduler that carries the verdict out and keeps the *)
(* sidecar's health is not in the repository: it obeys the Action, as the  *)
(* comments of Decide require.                                             *)
(***************************************************************************)
EXTENDS Integers, Sequences, FiniteSets

CONSTANTS ErCodes,         \* codes a sidecar may raise
          ErUnregistered,  \* those of them that the host does not know
          ErNumerics,      \* numeric codes of peers that send no data envelope
          ErMaxHops, ErMaxTasks

VARIABLES erErr,           \* the error under way, or ErNone
          erOrigin,        \* history: the error as it was raised
          erPc, erHops, erWrapped,
          erAttempt, erTries,
          erHealth,
          erVerdict,       \* the last Decision
          erTasks

erVars == <<erErr, erOrigin, erPc, erHops, erWrapped, erAttempt, erTries, erHealth,
            erVerdict, erTasks>>

----------------------------------------------------------------------------
(* reservedMetadata: what is not listed is permanent.                      *)

ErTransient == {"sidecar_hung", "sidecar_stdout_eof", "sidecar_stdin_broken_pipe", "tool_timeout",
                "llm_rate_limited_shortterm", "llm_upstream_5xx", "deadline_exceeded",
                "shutting_down", "brain_overloaded", "db_deadlock"}
ErUserFault == {"tool_input_invalid", "invalid_params", "workflow_precondition",
                "record_not_found", "db_unique_violation"}
ErSafety == {"tool_sandbox_denied", "llm_safety_refused", "policy_gate_denied"}
ErInternal == {"sidecar_start_failed", "sidecar_crashed", "sidecar_protocol_violation",
               "frame_encoding_error", "stale_response", "panicked", "assertion_failed",
               "invariant_violated", "unknown"}
ErClasses == {"transient", "permanent", "user_fault", "quota_exceeded", "safety_refused",
              "internal_bug"}

ErClassOf(code) == CASE code \in ErTransient -> "transient"
                     [] code \in ErUserFault -> "user_fault"
                     [] code \in ErSafety -> "safety_refused"
                     [] code \in ErInternal -> "internal_bug"
                     [] code = "llm_quota_exhausted_daily" -> "quota_exceeded"
                     [] OTHER -> "permanent"

\* newShell: a code that is not registered becomes "unknown", with the
\* requested one in the internal details.
ErShell(code, known) ==
    LET c == IF known THEN code ELSE "unknown"
    IN  [code |-> c, class |-> ErClassOf(c), retryable |-> ErClassOf(c) = "transient",
         cause |-> "", internal |-> ~known]

\* FromGoError; what it does not map is "unknown".
ErFromGo(kind) == CASE kind \in {"deadline", "net"} -> "deadline_exceeded"
                    [] kind = "eof" -> "sidecar_stdout_eof"
                    [] kind = "epipe" -> "sidecar_stdin_broken_pipe"
                    [] OTHER -> "unknown"

\* Wrap: the new code decides, the cause is kept below it.
ErWrap(err, code) == [ErShell(code, TRUE) EXCEPT !.cause = err.code]

----------------------------------------------------------------------------
(* The wire.                                                               *)

ErNumeric(code) == CASE code = "frame_parse_error" -> -32700
                     [] code = "frame_too_large" -> -32098
                     [] code = "method_not_found" -> -32601
                     [] code = "invalid_params" -> -32602
                     [] code = "shutting_down" -> -32099
                     [] code = "sidecar_hung" -> -32097
                     [] code = "brain_overloaded" -> -32096
                     [] OTHER -> -32000

ErFromNumeric(n) == CASE n = -32700 -> "frame_parse_error"
                      [] n \in {-32600, -32602} -> "invalid_params"
                      [] n = -32601 -> "method_not_found"
                      [] n = -32603 -> "assertion_failed"
                      [] n = -32099 -> "shutting_down"
                      [] n = -32098 -> "frame_too_large"
                      [] n = -32097 -> "sidecar_hung"
                      [] n = -32096 -> "brain_overloaded"
                      [] n = -32000 -> "brain_task_failed"
                      [] n = -32800 -> "stale_response"
                      [] OTHER -> "unknown"

\* SanitizeForWire: the internal details stay behind.
ErSanitize(err) == [err EXCEPT !.internal = FALSE]

\* EncodeErrorToRPCError.
ErEncode(err) == LET clean == ErSanitize(err)
                 IN  [n |-> ErNumeric(clean.code), data |-> TRUE, code |-> clean.code,
                      class |-> clean.class, cause |-> clean.cause]

ErKnown(code) == code \notin ErUnregistered

\* The cause is made anew as well, so its code must be known too.
ErCause(code) == IF code = "" \/ ErKnown(code) THEN code ELSE "unknown"

\* Mutant: the class of the envelope is not applied.
ErDecodePlain(w) ==
    LET code == IF w.data THEN w.code ELSE ErFromNumeric(w.n)
    IN  [ErShell(code, ErKnown(code)) EXCEPT !.cause = ErCause(w.cause)]

\* WrapRPCError: the code of the envelope before the numeric one; the class
\* of the envelope over the registry's. Retryable is not taken over.
ErDecode(w) ==
    LET code == IF w.data THEN w.code ELSE ErFromNumeric(w.n)
        err == ErShell(code, ErKnown(code))
    IN  [err EXCEPT !.class = IF w.data /\ w.class \in ErClasses THEN w.class ELSE @,
                    !.cause = ErCause(w.cause)]

----------------------------------------------------------------------------
(* Decide.                                                                 *)

ErRetries(health) == IF health = "degraded" THEN 1 ELSE 3

\* backoffFor without jitter, in seconds; a degraded sidecar starts at two.
ErBackoff(attempt) == IF 2 ^ attempt > 30 THEN 30 ELSE 2 ^ attempt

ErVerdictOf(action, backoff, violation) ==
    [action |-> action, backoff |-> backoff, violation |-> violation]

ErDecideTransient(err, attempt, health) ==
    CASE ~err.retryable -> ErVerdictOf("fail", 0, TRUE)
      [] err.retryable /\ (health = "quarantined" \/ attempt >= ErRetries(health))
           -> ErVerdictOf("fail", 0, FALSE)
      [] OTHER -> ErVerdictOf("retry",
                      ErBackoff(IF health = "degraded" THEN 1 ELSE attempt), FALSE)

ErDecideInternalBug(health) ==
    ErVerdictOf(CASE health = "quarantined" -> "fail"
                  [] health = "degraded" -> "quarantine"
                  [] OTHER -> "degrade", 0, FALSE)

ErDecide(err, attempt, health) ==
    CASE err.class = "transient" -> ErDecideTransient(err, attempt, health)
      [] err.class = "safety_refused" -> ErVerdictOf("ask_human", 0, FALSE)
      [] err.class = "internal_bug" -> ErDecideInternalBug(health)
      [] OTHER -> ErVerdictOf("fail", 0, FALSE)

----------------------------------------------------------------------------
(* A task.                                                                 *)

ErNone == ErShell("unknown", TRUE)
ErNoVerdict == ErVerdictOf("", 0, FALSE)

ErInit == /\ erErr = ErNone /\ erOrigin = ErNone
          /\ erPc = "run" /\ erHops = 0 /\ erWrapped = FALSE
          /\ erAttempt = 0 /\ erTries = 1
          /\ erHealth = "healthy"
          /\ erVerdict = ErNoVerdict
          /\ erTasks = 1

ErBorn(err) == /\ erPc = "run"
               /\ erPc' = "wire"
               /\ erErr' = err /\ erOrigin' = err
               /\ erHops' = 0 /\ erWrapped' = FALSE
               /\ UNCHANGED <<erAttempt, erTries, erHealth, erVerdict, erTasks>>

\* New on the sidecar, which knows all its codes, with WithClass and
\* WithRetryable options.
ErNew == \E code \in ErCodes, class \in ErClasses \cup {"default"}, retryable \in BOOLEAN,
            internal \in BOOLEAN :
           LET err == ErShell(code, TRUE)
           IN  ErBorn([err EXCEPT !.class = IF class = "default" THEN @ ELSE class,
                                  !.retryable = IF class = "default" THEN @ ELSE retryable,
                                  !.internal = internal])

\* A Go error wrapped where it occurs.
ErWrapGo == \E kind \in {"deadline", "net", "eof", "epipe", "other"}, code \in ErCodes :
              ErBorn(ErWrap(ErShell(ErFromGo(kind), TRUE), code))

\* A peer that answers with a bare numeric code.
ErForeign == \E n \in ErNumerics :
               ErBorn(ErDecode([n |-> n, data |-> FALSE, code |-> "", class |-> "", cause |-> ""]))

ErCross == /\ erPc = "wire"
           /\ erHops < ErMaxHops
           /\ erHops' = erHops + 1
           /\ erErr' = ErDecode(ErEncode(erErr))
           /\ UNCHANGED <<erOrigin, erPc, erWrapped, erAttempt, erTries, erHealth, erVerdict, erTasks>>

\* The host wraps what it received before it decides.
ErHostWrap == /\ erPc = "wire" /\ erHops > 0 /\ ~erWrapped
              /\ \E code \in {"tool_execution_failed", "brain_task_failed"} :
                   erErr' = ErWrap(erErr, code)
              /\ erWrapped' = TRUE
              /\ UNCHANGED <<erOrigin, erPc, erHops, erAttempt, erTries, erHealth, erVerdict, erTasks>>

ErJudge ==
    /\ erPc = "wire" /\ erHops > 0
    /\ erVerdict' = ErDecide(erErr, erAttempt, erHealth)
    /\ erPc' = "verdict"
    /\ UNCHANGED <<erErr, erOrigin, erHops, erWrapped, erAttempt, erTries, erHealth, erTasks>>

\* The scheduler obeys: another try, or the end of the task and the ledger.
ErObey ==
    /\ erPc = "verdict"
    /\ IF erVerdict.action = "retry"
       THEN /\ erAttempt' = erAttempt + 1 /\ erTries' = erTries + 1
            /\ erPc' = "run"
            /\ UNCHANGED erTasks
       ELSE /\ erTasks < ErMaxTasks
            /\ erTasks' = erTasks + 1
            /\ erAttempt' = 0 /\ erTries' = 1
            /\ erPc' = "run"
    /\ erHealth' = CASE erVerdict.action = "degrade" -> "degraded"
                     [] erVerdict.action = "quarantine" -> "quarantined"
                     [] OTHER -> erHealth
    /\ UNCHANGED <<erErr, erOrigin, erHops, erWrapped, erVerdict>>

\* Time heals: a window without errors, or the probe after a quarantine.
ErHeal == /\ erHealth # "healthy"
          /\ erHealth' = "healthy"
          /\ UNCHANGED <<erErr, erOrigin, erPc, erHops, erWrapped, erAttempt, erTries, erVerdict, erTasks>>

ErNext == ErNew \/ ErWrapGo \/ ErForeign \/ ErCross \/ ErHostWrap \/ ErJudge \/ ErObey \/ ErHeal

ErSpec == ErInit /\ [][ErNext]_erVars

----------------------------------------------------------------------------
\* Whatever code and overrides an error was raised with and however many
\* connections it crossed: its class and its cause arrive (its code too if
\* the host knows it), internal details do not. Judged as it arrived, only an
\* error that was transient where it was raised is retried, never on a
\* quarantined sidecar, and a refusal for safety always goes to a human. No
\* task is tried more than four times, also when the sidecar's health changes
\* between its attempts.
ErVerdictsSound ==
    /\ erTries <= 4
    /\ erPc \in {"wire", "verdict"} /\ erHops > 0 /\ ~erWrapped =>
         /\ erErr.class = erOrigin.class
         /\ erErr.cause = ErCause(erOrigin.cause)
         /\ ErKnown(erOrigin.code) => erErr.code = erOrigin.code /\ ~erErr.internal
    /\ erPc = "verdict" /\ ~erWrapped =>
         /\ erVerdict.action = "retry" => erOrigin.class = "transient" /\ erVerdict.backoff \in 1 .. 30
         /\ erOrigin.class = "safety_refused" => erVerdict.action = "ask_human"
    /\ erPc = "verdict" /\ erWrapped => erVerdict.action = "fail"
=============================================================================
