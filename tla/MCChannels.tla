-------------------------------- MODULE MCChannels --------------------------------
(* Channels with the three channels of a viewer that carry something out, two programs *)
(* at the default endpoint and one at the gamepads.                                    *)
EXTENDS Channels
RolesDef == <<"command", "stream", "reliable">>
=============================================================================
