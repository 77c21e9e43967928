---------------------------- MODULE OutputBuffer ----------------------------
(* The output buffers a client attaches to a decoder, reduced to a size.    *)
EXTENDS Integers

CONSTANTS
  NoBuffer,      \* a null output pointer
  BufferSizes    \* the sizes of the output buffers the caller owns

ASSUME BuffersAssumption == BufferSizes \subseteq Nat /\ NoBuffer \notin Nat
==============================================================================
