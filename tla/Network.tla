------------------------------ MODULE Network -------------------------------
(***************************************************************************)
(* What the image sending clients and the image gathering server share:    *)
(* the routing tree, the image numbers, and the sending period.            *)
(***************************************************************************)
EXTENDS Integers, Sequences

CONSTANTS
    Clients,
    Server,
    Parent,       \* the routing tree: Parent[c] is a client or Server
    ImgMod,       \* image numbers are taken modulo this: 2^16 in the code
    Fragments     \* fragments of an image, each of size 1

ASSUME NetworkAssumption ==
    /\ Server \notin Clients
    /\ Parent \in [Clients -> Clients \cup {Server}]
    /\ ImgMod \in Nat \ {0}
    /\ Fragments \in Nat \ {0}

(***************************************************************************)
(* A period is what it was made of: the number of times the period given   *)
(* to the server was multiplied by 1 + ALPHA, and by 1 - BETA.             *)
(***************************************************************************)
Period == [longer : Nat, shorter : Nat]

InitialPeriod == [longer |-> 0, shorter |-> 0]

(* A period message: its number, SequenceNumberVmessage, and a period.     *)
PeriodMessage == [no : Nat, period : Period]

(* An image data packet: its sender, image_number and sequence.            *)
Fragment == [ip : Clients, img : 0..(ImgMod - 1), seq : 0..(Fragments - 1)]

(* An announcement: the images from .. to of a client have this size.      *)
ValueMessage ==
    [ip : Clients, from : 0..(ImgMod - 1), to : 0..(ImgMod - 1), size : Nat]
=============================================================================
