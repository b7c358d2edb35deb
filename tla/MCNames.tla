------------------------------- MODULE MCNames -------------------------------
(***************************************************************************)
(* Bounded instance of Names for TLC: all references of up to seven        *)
(* characters, which is the length of host:port/repository:tag with one    *)
(* character each, and names up to one more than a tag may have.           *)
(***************************************************************************)
EXTENDS Names

Letter == <<"a">>
SomeDigest == <<"a", ":", "a">>

=============================================================================
