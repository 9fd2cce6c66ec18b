------------------------------- MODULE MCModem -------------------------------
(***************************************************************************)
(* TLC instances of Modem: one reserved address, RAM of two bytes, ROM of  *)
(* two and an address past it, at 3 and 1 of the host's seven addresses;   *)
(* buffers that fit, end at the end of their region, run over it, or       *)
(* wrap; two descriptors, so that a leak shows.                            *)
(***************************************************************************)
EXTENDS Modem

MCAddresses == 0 .. 5
MCSizes == (0 .. 2) \cup {6}
MCDescriptors == {3, 4}

=============================================================================
