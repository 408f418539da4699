-------------------------- MODULE MCProvisionWindow --------------------------
(* Provision_RunWindow with a buffer of four, so that a host line may be up to *)
(* two buffers and a bit, and a cap of a few polls.                            *)
EXTENDS ProvisionWindow
==============================================================================
