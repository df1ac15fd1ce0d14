----------------------------- MODULE MCUploads -----------------------------
(***************************************************************************)
(* A browser and a deployment script upload one artifact with a DLL in two *)
(* chunks.                                                                 *)
(***************************************************************************)
EXTENDS Uploads, TLC

CONSTANTS dll, browser, script

MCArchive == dll :> {"dll", "plain"}
MCClients == {browser, script}
MCBrowsers == {browser}

=============================================================================
