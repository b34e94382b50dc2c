------------------------------- MODULE UsbHosts -------------------------------
(***************************************************************************)
(* The two host drivers of the kernel side by side: EHCI with its stick    *)
(* (UsbStick) and XHCI (Xhci).  A machine has one of them.                 *)
(***************************************************************************)
EXTENDS UsbStick

CONSTANTS XhciPorts, RingSize, Patience, XhciCapabilities, XhciDevices     \* see Xhci

VARIABLES
  phase, list, place, patience, owner, halted, pending, devices, portid, step, filled, work,
  target, events, slots, failed, silent, since

X == INSTANCE Xhci WITH
  Ports <- XhciPorts, Capabilities <- XhciCapabilities, Devices <- XhciDevices

xvars ==
  <<phase, list, place, patience, owner, halted, pending, devices, portid, step, filled, work,
    target, events, slots, failed, silent, since>>

(* No event of an earlier request is taken for the answer to a later one (see Xhci). *)
EventsAreOwn == X!EventsAreOwn

(* The event ring, which nobody empties, is never full (see Xhci). *)
EventsFit == X!EventsFit
=============================================================================
