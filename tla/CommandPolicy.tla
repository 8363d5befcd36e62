---------------------------- MODULE CommandPolicy ----------------------------
(***************************************************************************)
(* The command policy of the adapter (internal/server/command_policy.go):  *)
(* which buffer a command belongs to, which commands may be sent while a   *)
(* firmware update or a synchronisation is running, and how many times an  *)
(* unanswered command is sent again.                                       *)
(*                                                                         *)
(* A command is a record of what the adapter looks at: its message id, its *)
(* command id, the length of its payload, its creation time, whether it    *)
(* has a time to live, its deduplication key and whether its payload       *)
(* passes ValidateServerCommandPayload.                                    *)
(***************************************************************************)
EXTENDS Integers

CONSTANTS
  Commands,   \* the commands handed to EnqueueCommand during a behaviour
  Policies    \* the delivery profiles of the configuration

Priorities == {"high", "fw", "sync", "query"}

HighIDs  == {1, 2, 3, 5, 8, 17, 18, 19, 23, 24}
FWIDs    == {20}
SyncIDs  == 12..16
QueryIDs == {6, 7, 9, 10, 11, 21, 22, 25, 27}

SupportedIDs == HighIDs \cup FWIDs \cup SyncIDs \cup QueryIDs

NoKey == "none"

CommandRecord ==
  [messageID : Nat, commandID : 0..255, payloadLen : Nat, createdAt : Nat,
   ttl : BOOLEAN, dedupKey : STRING, valid : BOOLEAN]

\* A profile with the fields of session.DeliveryPolicy.
Profile == [ackTimeout : Int, retryBackoff : Int, maxRetries : Int]

ASSUME CommandsAssumption == Commands \subseteq CommandRecord

ASSUME PoliciesAssumption ==
  Policies \in [{"base", "query", "sync", "fw"} -> Profile]

-----------------------------------------------------------------------------
canonicalPriorityForCommand(id) ==
  IF id \in HighIDs THEN "high"
  ELSE IF id \in FWIDs THEN "fw"
  ELSE IF id \in SyncIDs THEN "sync"
  ELSE "query"

\* The buffer of a command: its Priority once normalizeCommandPriority ran.
PriorityOf(c) == canonicalPriorityForCommand(c.commandID)

commandAllowedInModes(id, fwMode, syncMode) ==
  IF fwMode
  THEN id \in HighIDs \cup FWIDs
  ELSE syncMode => \/ id \in SyncIDs
                   \/ id \in HighIDs \ {2, 3, 17, 18, 19, 23}

-----------------------------------------------------------------------------
\* A profile whose fields are all zero counts as not configured.
mergeDeliveryPolicy(base, specific) ==
  IF specific = [ackTimeout |-> 0, retryBackoff |-> 0, maxRetries |-> 0]
  THEN base
  ELSE [ackTimeout   |-> IF specific.ackTimeout > 0
                         THEN specific.ackTimeout ELSE base.ackTimeout,
        retryBackoff |-> IF specific.retryBackoff >= 0
                         THEN specific.retryBackoff ELSE base.retryBackoff,
        maxRetries   |-> IF specific.maxRetries >= 0
                         THEN specific.maxRetries ELSE base.maxRetries]

BasePolicy ==
  LET b == Policies["base"]
  IN  [b EXCEPT !.ackTimeout = IF @ <= 0 THEN 10 ELSE @,
                !.maxRetries = IF @ < 0 THEN 0 ELSE @]

deliveryPolicyForCommand(c) ==
  LET class == IF PriorityOf(c) \in {"query", "sync"} THEN PriorityOf(c)
               ELSE IF c.commandID \in {19, 20} THEN "fw"
               ELSE "base"
  IN  IF class = "base" THEN BasePolicy
      ELSE mergeDeliveryPolicy(BasePolicy, Policies[class])

MaxRetries(c) == deliveryPolicyForCommand(c).maxRetries
=============================================================================
