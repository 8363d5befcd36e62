---------------------------- MODULE MCAlgorithms ----------------------------
(* An instance for TLC of the machines around pure functions: the frames and *)
(* payloads of internal/protocol, the page that builds payloads, and         *)
(* retryDelay.  For frames: IMEIs of two digits, one of them padded; the     *)
(* empty payload, the shortest, a heartbeat and one like a registration.     *)
(* For payloads: sizes and counts of a firmware start scaled down, all other *)
(* widths as in the code.  The machines share no state, so each one runs     *)
(* while the others rest; builders keep no state between calls, so one call  *)
(* is enough.                                                                *)
EXTENDS FrameCodec, CRC16, Payloads, CommandBuilder, RetryBackoff

MCImeis == {<<49, 50>>, <<49, 0>>}

MCPayloads == {<<>>, <<2>>, <<11, 1>>, <<1, 49, 49, 1, 1>>}

FramesRest == sent = <<>> /\ mode = "compact" /\ UNCHANGED frameVars
FirmwareRests == via = "none" /\ UNCHANGED firmwareVars
PayloadsRest == request = NoRequest /\ UNCHANGED payloadVars
RetriesRest == attempts = 1 /\ base = 0 /\ UNCHANGED retryVars
PageRests == PageInit /\ UNCHANGED pageVars

AlgorithmsInit ==
  /\ FrameInit /\ FirmwareInit /\ PayloadInit /\ RetryInit /\ PageInit
  /\ mode = "compact" \/ base = 0

\* The page alone.
OnlyPage == FramesRest /\ FirmwareRests /\ PayloadsRest /\ RetriesRest /\ PageNext

AlgorithmsNext ==
  \/ FirmwareRests /\ PayloadsRest /\ RetriesRest /\ PageRests /\ FrameNext
  \/ FramesRest /\ PayloadsRest /\ RetriesRest /\ PageRests /\ via = "none" /\ FirmwareNext
  \/ FramesRest /\ FirmwareRests /\ RetriesRest /\ PageRests /\ request = NoRequest /\ PayloadNext
  \/ FramesRest /\ FirmwareRests /\ PayloadsRest /\ PageRests /\ RetryNext
  \/ OnlyPage

algorithmVars == <<frameVars, firmwareVars, payloadVars, retryVars, pageVars>>

AlgorithmsSpec == AlgorithmsInit /\ [][AlgorithmsNext]_algorithmVars

BuilderSpec == AlgorithmsInit /\ [][OnlyPage]_algorithmVars
=============================================================================
