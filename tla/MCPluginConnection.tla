------------------------- MODULE MCPluginConnection -------------------------
(* Scripts for PluginConnection.  ivp_receive sends the registration as    *)
(* soon as it is connected, so each script begins with one.                *)
EXTENDS PluginConnection

MCScripts ==
    { <<"register", "subscribe", "eventlog", "normal">>,
      <<"register", "status", "normal", "eventlog", "status">>,
      <<"register", "garbled", "config", "status", "globalconfig">> }

MCShortScripts == { <<"register", "status">> }

MCEventLogScripts == { <<"register", "eventlog">> }

ASSUME RegistersFirst
=============================================================================
