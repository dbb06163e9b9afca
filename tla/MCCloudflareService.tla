--------------------------- MODULE MCCloudflareService --------------------------
(* CloudflareService on a few events. *)
EXTENDS CloudflareService
=============================================================================
