----------------------------- MODULE MCKeymaps ------------------------------
(* Two keys, of which the configuration maps one the defaults map too.       *)
EXTENDS Keymaps

CONSTANTS quit, user

MCSlot == {quit, user}
MCDefaultSlots == <<quit>>

\* Nothing, one call of each kind, a remapping of one key, a whole configuration.
MCScripts ==
  {<<>>, <<quit>>, <<user>>, <<NoSlot>>, <<"on_startup">>, <<"on_connector_change">>,
   <<user, user>>, <<quit, "on_startup">>, <<"on_connector_change", user>>}

=============================================================================
