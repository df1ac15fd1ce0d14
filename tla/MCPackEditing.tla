--------------------------- MODULE MCPackEditing ---------------------------
(***************************************************************************)
(* The platform's pack, with its plugin and another mod, and a pack that   *)
(* is made, which is meant to have the mod only.  The plugin that was      *)
(* built declares the next game only, the one before it needs the mod.     *)
(***************************************************************************)
EXTENDS PackEditing

MCTheme == [p \in Packs |-> IF p = PlatformPack THEN {"plugin", "mod"} ELSE {"mod"}]

MCDeclares == [m \in Mods |-> [v \in 1..Newest |-> IF m = "plugin" /\ v = Newest THEN {"next"} ELSE Games]]

MCDependsOn == [m \in Mods |-> [v \in 1..Newest |-> IF m = "plugin" /\ v # Newest THEN {"mod"} ELSE {}]]

=============================================================================
