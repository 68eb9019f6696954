--------------------------- MODULE NativePlatforms ---------------------------
(* native_stdio is one of two classes: a program opens a posix_stdio or a     *)
(* windows_stdio, whose variables have a w here, and none of the other class. *)
EXTENDS PosixIo

CONSTANTS Users,        \* threads that call transfer of a windows_stdio
          Directions, DirectionOf, None

VARIABLES wLife, wStopped, wThread, wCancelled, wPc, wHow, wToken, wCallback, wAborted,
          wEnded

wVars == <<wLife, wStopped, wThread, wCancelled, wPc, wHow, wToken, wCallback, wAborted,
           wEnded>>

Win == INSTANCE WindowsIo WITH
    Callers <- Users,
    life <- wLife, stopped <- wStopped, thread <- wThread, cancelled <- wCancelled,
    pc <- wPc, how <- wHow, token <- wToken, callback <- wCallback, aborted <- wAborted,
    ended <- wEnded

ASSUME PlacementAssumption == Win!WellPlaced

PlatformInit == Init /\ Win!Init

PlatformNext ==
    \/ Next /\ wLife = "closed" /\ ~wStopped /\ UNCHANGED wVars
    \/ Win!Next /\ life = "closed" /\ ~stopped /\ ~masked /\ UNCHANGED vars

PlatformSpec == PlatformInit /\ [][PlatformNext]_<<vars, wVars>>

FairPlatformSpec == PlatformSpec /\ Fairness /\ Win!Fairness

(* windows_stdio implements the promise of NativeIo, see WindowsIo. *)
WindowsImplementsNativeIo == Win!ImplementsNativeIo

(* The destructor of a windows_stdio closes no handle that a call still uses, see *)
(* WindowsIo.                                                                     *)
ClosedMeansReleased == Win!ClosedMeansReleased
=============================================================================
