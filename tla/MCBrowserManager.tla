--------------------------- MODULE MCBrowserManager ---------------------------
(* Small instances of BrowserManager.                                        *)
EXTENDS BrowserManager

\* Two tasks with different launch profiles, and one engine for which the
\* profiles make no difference when there are two.
MCServeArgs ==
    [et \in Engine \X Task |->
        IF et[1] = CHOOSE e \in Engine : TRUE THEN et[2] ELSE Nil]
=============================================================================
