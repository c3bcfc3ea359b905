-------------------------- MODULE MCEditorSession --------------------------
(* The default diagram, one that does not verify, the blank one, and two   *)
(* option sets: enough for a stale source and for stale options.           *)
EXTENDS EditorSession

CONSTANTS blank, standard, half, plain, sketchy

MCSources == {blank, standard, half}
MCVerified == {standard}
MCOptions == {plain, sketchy}

MCLinks == {None, Broken, [source |-> half, options |-> sketchy],
            [source |-> standard, options |-> sketchy]}
=============================================================================
