------------------------------ MODULE FrameRing ------------------------------
(***************************************************************************)
(* What the frame buffer promises to the camera and to the display: a ring *)
(* of buffers in which the camera side fills one buffer at a time, never   *)
(* the one that is being shown and never the newest complete frame, and    *)
(* the display side always picks up the newest complete frame.             *)
(***************************************************************************)
CONSTANTS
  Buffer,    \* the frame buffers
  NoBuffer,  \* not a buffer
  Blank      \* the buffer that counts as newest before any frame is complete

VARIABLES
  writing,   \* the buffer being filled, or NoBuffer
  reading,   \* the buffer being shown, or NoBuffer
  newest     \* the buffer that holds the last complete frame

ringVars == <<writing, reading, newest>>

Init ==
  /\ writing = NoBuffer
  /\ reading = NoBuffer
  /\ newest = Blank

BeginWrite ==
  /\ writing = NoBuffer
  /\ writing' \in Buffer \ {newest, reading}
  /\ UNCHANGED <<reading, newest>>

EndWrite ==
  /\ writing # NoBuffer
  /\ newest' = writing
  /\ writing' = NoBuffer
  /\ UNCHANGED reading

BeginRead ==
  /\ reading = NoBuffer
  /\ reading' = newest
  /\ UNCHANGED <<writing, newest>>

EndRead ==
  /\ reading # NoBuffer
  /\ reading' = NoBuffer
  /\ UNCHANGED <<writing, newest>>

Next == BeginWrite \/ EndWrite \/ BeginRead \/ EndRead

Spec == Init /\ [][Next]_ringVars

=============================================================================
