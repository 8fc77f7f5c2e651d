----------------------------- MODULE MCHpsSetup ------------------------------
(* The UART's interrupt, one of the FPGA and a software one; the preloader has left the *)
(* interrupts on.                                                                       *)
EXTENDS HpsSetup

MCImplemented == {1, 72, 194}
MCOthers == {72}
MCPreloaders ==
  {[icddcr |-> {"secure", "ns"}, icdiser |-> {72, 194}, iccicr |-> {"secure"}, iccpmr |-> 255]}
=============================================================================
