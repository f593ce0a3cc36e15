----------------------------- MODULE SnifferMC -----------------------------
(* Sniffer on a small instance. *)
EXTENDS Sniffer

\* Messages of three fragments, two, one and two; the last comes on a channel of its
\* own, where it has the start sequence number of the first.
MCCount == <<3, 2, 1, 2>>
MCStart == <<1, 2, 3, 1>>

=============================================================================
