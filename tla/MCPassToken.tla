---------------------------- MODULE MCPassToken ----------------------------
(* Two instances, one client, two addresses, a user agent in two cases and *)
(* none at all; policies that bind more and more.                          *)
EXTENDS PassToken, TLC

MCAgents == {[name |-> "ff", case |-> "lower"], [name |-> "ff", case |-> "upper"],
             NoText}
MCPolicies == {{}, {"ua"}, {"ip", "ua"}, {"ip", "ua", "ja3"}}
=============================================================================
