---------------------------- MODULE Distribution ----------------------------
(***************************************************************************)
(* The distributions a Vector can have: how its elements are spread over   *)
(* the devices, and when a change of distribution forces the data through  *)
(* the host.  Pure definitions, shared by every module below.              *)
(*                                                                         *)
(* Every distribution is built over the global device list with the        *)
(* default (equal) significances, as all of src/ does.                     *)
(***************************************************************************)
EXTENDS Integers

CONSTANTS
  NumDevices,  \* length of globalDeviceList; ids are positions in it
  MaxSize,     \* bound: no vector is longer than this
  Quota(_)     \* elements of one device: size_t(size * float(1 / NumDevices))

(***************************************************************************)
(* The product is a float rounded towards zero, so Quota(n) need not be    *)
(* n \div NumDevices: all that is used is that the devices before the last *)
(* do not get more than there is.                                          *)
(***************************************************************************)
ASSUME NumDevicesAssumption == NumDevices \in Nat \ {0}
ASSUME MaxSizeAssumption    == MaxSize \in Nat

Device     == 0 .. NumDevices - 1
LastDevice == NumDevices - 1

ASSUME QuotaAssumption ==
  \A n \in 0 .. MaxSize : Quota(n) \in Nat /\ LastDevice * Quota(n) <= n

-----------------------------------------------------------------------------
Invalid   == [kind |-> "invalid", devices |-> {}]
Single(d) == [kind |-> "single",  devices |-> {d}]
Block     == [kind |-> "block",   devices |-> Device]
Copy      == [kind |-> "copy",    devices |-> Device]

ValidDistribution  == {Single(d) : d \in Device} \cup {Block, Copy}
DistributionType   == ValidDistribution \cup {Invalid}

IsValid(dist) == dist.kind # "invalid"

\* dataExchangeOnDistributionChange, of each class: must the data go through the
\* host when the distribution is replaced by new?
BlockExchanges(new) == new # Block

\* Mistake for SingleExchanges: another device counts as the same distribution.
SingleExchanges_OtherKind(old, new) == new.kind # old.kind

SingleExchanges(old, new) == new # old

NeedsExchange(old, new) ==
  \/ old.kind = "block" /\ BlockExchanges(new)
  \/ old.kind = "single" /\ SingleExchanges(old, new)
  \/ old.kind = "copy"

\* Mistake for BlockSize: every device but the last is given one more.
BlockSize_RoundedUp(n, d) ==
  IF d < LastDevice THEN Quota(n) + 1 ELSE n - LastDevice * Quota(n)

\* block_distribution_helper::sizeForDevice: the last device takes the rest.
\* (Its own share is added and subtracted again, in size_t arithmetic.)
BlockSize(n, d) ==
  IF d < LastDevice THEN Quota(n) ELSE n - LastDevice * Quota(n)

SizeForDevice(dist, n, d) ==
  CASE dist.kind = "block"   -> BlockSize(n, d)
    [] dist.kind = "invalid" -> 0
    [] OTHER                 -> n

\* A device buffer of zero bytes cannot be created: clCreateBuffer fails and
\* the program aborts.
Allocatable(dist, n) == \A d \in dist.devices : SizeForDevice(dist, n, d) > 0

\* The devices startDownload reads from: a copy distribution without a
\* combine function only asks the first one.
DownloadDevices(dist) == IF dist.kind = "copy" THEN {0} ELSE dist.devices
=============================================================================
