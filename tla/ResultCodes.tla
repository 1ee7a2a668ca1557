----------------------------- MODULE ResultCodes -----------------------------
(***************************************************************************)
(* The two vocabularies in which the runtime reports an outcome, and the   *)
(* conversions between them (common/Utils.cpp).  A result code is what a   *)
(* function of the C API returns, an error status is what travels over the *)
(* HAL.  The prefixes ANEURALNETWORKS_ and ErrorStatus:: are left out.     *)
(***************************************************************************)

ResultCode == {"NO_ERROR", "OUT_OF_MEMORY", "INCOMPLETE", "UNEXPECTED_NULL", "BAD_DATA",
               "OP_FAILED", "BAD_STATE", "UNMAPPABLE", "OUTPUT_INSUFFICIENT_SIZE",
               "UNAVAILABLE_DEVICE", "MISSED_DEADLINE_TRANSIENT",
               "MISSED_DEADLINE_PERSISTENT", "RESOURCE_EXHAUSTED_TRANSIENT",
               "RESOURCE_EXHAUSTED_PERSISTENT", "DEAD_OBJECT"}

\* The statuses with a result code of the same name.
SharedName == {"OUTPUT_INSUFFICIENT_SIZE", "MISSED_DEADLINE_TRANSIENT",
               "MISSED_DEADLINE_PERSISTENT", "RESOURCE_EXHAUSTED_TRANSIENT",
               "RESOURCE_EXHAUSTED_PERSISTENT"}

ErrorStatus == SharedName \cup {"NONE", "DEVICE_UNAVAILABLE", "GENERAL_FAILURE",
                                "INVALID_ARGUMENT"}

convertResultCodeToErrorStatus(n) ==
    CASE n = "NO_ERROR"                        -> "NONE"
      [] n \in {"BAD_DATA", "UNEXPECTED_NULL"} -> "INVALID_ARGUMENT"
      [] n = "UNAVAILABLE_DEVICE"              -> "DEVICE_UNAVAILABLE"
      [] n \in SharedName                      -> n
      [] OTHER                                 -> "GENERAL_FAILURE"

convertErrorStatusToResultCode(status) ==
    CASE status = "NONE"               -> "NO_ERROR"
      [] status = "DEVICE_UNAVAILABLE" -> "UNAVAILABLE_DEVICE"
      [] status = "INVALID_ARGUMENT"   -> "BAD_DATA"
      [] status \in SharedName         -> status
      [] OTHER                         -> "OP_FAILED"

\* The two codes with which a plan says that a WHILE loop ran out of time.
MissedDeadline(n) == n \in {"MISSED_DEADLINE_TRANSIENT", "MISSED_DEADLINE_PERSISTENT"}
===============================================================================
