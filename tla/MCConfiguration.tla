---------------------------- MODULE MCConfiguration ----------------------------
(***************************************************************************)
(* An instance of Configuration for TLC: a default config, one for an      *)
(* application, and match files with a cycle and a diamond of imports.     *)
(***************************************************************************)
EXTENDS ConfigurationProperties

File(body) == [exists |-> TRUE, parses |-> TRUE, body |-> body]

MCConfigFiles == {"default.yml", "default.yaml", "app.yml", "bad.yml"}
MCMatchFiles == {"base.yml", "base.yaml", "a.yml", "_p.yml", "_q.yml"}
MCGlobs == [standard |-> {"base.yml", "base.yaml", "a.yml"},
            private  |-> {"_p.yml"}, base |-> {"base.yml", "base.yaml"}]

Editor  == [title |-> "notes", exec |-> "editor", class |-> "edit"]
Browser == [title |-> "mail", exec |-> "browser", class |-> "web"]
MCApps == {Editor, Browser}
MCPatches == <<[enabled |-> FALSE, apps |-> MCApps, options |-> [backend |-> "Inject"]],
               [enabled |-> TRUE, apps |-> {Browser}, options |-> [backend |-> "Clipboard"]]>>

Replace(t) == [trigger |-> t, replace |-> "text"]
Plain == File(<<>>)
MCTemplate == ("default.yml" :> Plain) @@ ("base.yml" :> File([matches |-> <<Replace("hi")>>]))

Matches(list) == File([matches |-> list])
Base == File([imports |-> <<"_p.yml", "_q.yml">>,
              matches |-> <<Replace("hi"), [triggers |-> {"blank"}, replace |-> "text"]>>])
Cyclic == File([imports |-> <<"a.yml", "_q.yml">>,
                matches |-> <<[regex |-> "r", word |-> TRUE, html |-> "text",
                               force_mode |-> "keys"]>>])
ImportsP == File([imports |-> <<"_p.yml">>, global_vars |-> <<"v", "bad">>,
                  matches |-> <<[trigger |-> "x"], [form |-> "layout"],
                                [trigger |-> "y", markdown |-> "text", vars |-> <<"bad">>],
                                [triggers |-> {"z", "blank"}, image_path |-> "file",
                                 uppercase_style |-> "unknown"]>>])
App == File([filter_title |-> [compiles |-> TRUE, matches |-> {"mail"}],
             filter_os |-> "linux", backend |-> "unknown",
             includes |-> {"private"}, excludes |-> {"base"}, backspace_delay |-> 5])
BadRegex == File([filter_exec |-> [compiles |-> FALSE, matches |-> {}]])

EmptyDisk == [f \in MCConfigFiles \cup MCMatchFiles |-> Absent]
FullDisk == ("default.yml" :> Plain) @@ ("default.yaml" :> Plain) @@ ("app.yml" :> App) @@ ("base.yml" :> Base)
            @@ ("a.yml" :> ImportsP) @@ ("_p.yml" :> Cyclic)
            @@ ("_q.yml" :> Matches(<<Replace("q")>>)) @@ EmptyDisk
MCDisks == {EmptyDisk, FullDisk}
MCBuiltinIds == {<<"built-in", 1>>}

MCWrites ==
    {<<"default.yml", Torn>>, <<"default.yml", Plain>>, <<"default.yml", Absent>>,
     <<"default.yml", File([auto_restart |-> FALSE])>>,
     <<"bad.yml", BadRegex>>, <<"_p.yml", Absent>>}
=============================================================================
