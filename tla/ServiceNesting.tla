---------------------------- MODULE ServiceNesting ----------------------------
(***************************************************************************)
(* What the DAB service switch promises of the tuner, whatever the user    *)
(* asks for and whatever the commands answer: services are nested.  The    *)
(* channel carries at most one audio service at a time, the audio service  *)
(* at most its own slideshow component; each level is taken down before    *)
(* the level above it changes, and only a hardware reset drops everything  *)
(* at once.  DabSwitch is shown to implement this.                         *)
(***************************************************************************)
CONSTANTS Services, Freqs, None

VARIABLES
  channel,   \* where the tuner is tuned to
  audio,     \* the audio service that is started
  slideshow  \* the data service that is started with it

nesting == <<channel, audio, slideshow>>

Silent == channel = None /\ audio = None /\ slideshow = None

Retune(f) ==
  /\ audio = None /\ slideshow = None
  /\ channel' = f /\ UNCHANGED <<audio, slideshow>>

StartAudio(s) ==
  /\ audio = None /\ slideshow = None
  /\ audio' = s /\ UNCHANGED <<channel, slideshow>>

StartSlideshow ==
  /\ audio # None /\ slideshow = None
  /\ slideshow' = audio /\ UNCHANGED <<channel, audio>>

StopSlideshow ==
  /\ slideshow # None
  /\ slideshow' = None /\ UNCHANGED <<channel, audio>>

StopAudio ==
  /\ audio # None /\ slideshow = None
  /\ audio' = None /\ UNCHANGED <<channel, slideshow>>

Reset == channel' = None /\ audio' = None /\ slideshow' = None

NestingNext ==
  \/ \E f \in Freqs : Retune(f)
  \/ \E s \in Services : StartAudio(s)
  \/ StartSlideshow \/ StopSlideshow \/ StopAudio \/ Reset

NestingSpec == Silent /\ [][NestingNext]_nesting
=============================================================================
