-------------------------------- MODULE MCHook --------------------------------
(***************************************************************************)
(* Module ContainerHook for TLC.                                           *)
(***************************************************************************)
EXTENDS ContainerHook

CONSTANTS dev, net, opt,    \* directories: net is below dev
          null, tun, disk,  \* devices: dev/null, dev/net/tun, opt/disk
          proc, sys         \* masked paths

DevicePaths ==
  [d \in Devices |-> IF d = tun THEN <<dev, net>> ELSE IF d = disk THEN <<opt>> ELSE <<dev>>]

\* Character and block devices.
DeviceTypes == [d \in Devices |-> IF d = disk THEN "b" ELSE "c"]

\* Types with a fifo, tun, which the hook can not make.
FifoTypes == [d \in Devices |-> IF d = tun THEN "p" ELSE "c"]

=============================================================================
