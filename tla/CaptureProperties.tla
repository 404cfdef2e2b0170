--------------------------- MODULE CaptureProperties ---------------------------
(***************************************************************************)
(* What the clients of a capture, the user and a session lock may rely on. *)
(***************************************************************************)
EXTENDS Capture

CaptureType ==
  [at : {"none", "over"}] \cup
  [at : {"open", "asked", "gone"}, kind : {"screencopy", "image_copy"}, cursor : BOOLEAN,
   used : BOOLEAN, answers : {0, 1}, picture : {"none", "desktop", "lock"}, painted : BOOLEAN,
   lent : BOOLEAN, refused : BOOLEAN]

HasFrame(c) == capture[c].at \in {"open", "asked", "gone"}

\* The variables hold what their types allow.
CaptureTypeOK ==
  /\ backend \in {"nested", "direct"} /\ running \in BOOLEAN /\ output \in BOOLEAN
  /\ session \in [on : BOOLEAN, confirm : BOOLEAN]
  /\ config_error \in BOOLEAN /\ redraw \in BOOLEAN
  /\ click \in {NoClick} \cup [kind : Clicks, due : BOOLEAN]
  /\ screen \in [scene : {"off", "lock", "desktop"}, error : BOOLEAN]
  /\ capture \in [Captures -> CaptureType]
  /\ pending \subseteq {c \in Captures : capture[c].at \in {"asked", "gone"}}

\* The buffer of a copy that was queued is back with its client once the capture is
\* no longer queued, whatever has become of the frame object, the lock and the
\* Output meanwhile (screencopy.rs: "Portal clients wait for this event before
\* recycling their PipeWire/SHM buffer").  The buffer of a copy that was refused
\* while locked is not among them: nothing releases it.
BufferComesBack ==
  \A c \in Captures :
    (HasFrame(c) /\ capture[c].kind = "screencopy" /\ capture[c].lent) => c \in pending

\* A frame object that has its picture is not queued again, and no frame answers it
\* again, however often its client asks and whatever is refused while locked.
PictureIsLast ==
  [][\A c \in Captures :
       (HasFrame(c) /\ capture[c].picture # "none" /\ HasFrame(c)') =>
         capture'[c].answers = capture[c].answers /\ c \notin pending']_capture_vars

\* A capture never has the desktop of a locked session, nor is that, or the
\* configuration error over it, shown: neither by a capture that was queued before
\* the lock, nor before the lock is confirmed (requirements FR-IN-012).
LockedShowsLock ==
  [][session.on =>
       /\ \A c \in Captures :
            (capture'[c].at \in {"asked", "gone"} /\ capture'[c].picture = "desktop") =>
              (HasFrame(c) /\ capture[c].picture = "desktop")
       /\ screen' # screen => screen' = [scene |-> "lock", error |-> FALSE]]_capture_vars

\* The direct backend's pictures have the cursor exactly when it was asked for,
\* with captures of both kinds queued for one frame (smithay-notes, "Cursor
\* inclusion in output capture").
CursorAsAsked ==
  backend = "direct" =>
    \A c \in Captures :
      (HasFrame(c) /\ capture[c].picture # "none") =>
        capture[c].painted = capture[c].cursor

\* A lock is confirmed only while its scene is what was last shown.
ConfirmedIsShown ==
  (session.on /\ ~session.confirm) => screen.scene = "lock"

\* A queued capture is answered or given up, unless the program ends; on the
\* direct backend also unless the session is locked, or the Output unplugged, again
\* and again.
CaptureAnswered ==
  \A c \in Captures :
    c \in pending ~> \/ c \notin pending \/ ~running
                     \/ (backend = "direct" /\ (session.on \/ ~output))

=============================================================================
