----------------------------- MODULE MCLocalScan ------------------------------
(***************************************************************************)
(* Machines to scan: one clean machine and, around it, one family per part *)
(* of the scan, in which a file is closed, cut or replaced by a fifo, a    *)
(* budget is spent or a tool fails.                                        *)
(***************************************************************************)
EXTENDS LocalScan

Says(w) == Text(<<<<w>>>>)

CleanFiles ==
    [p \in {"suid_dumpable", "ip_forward"} |-> Says("expected")]
    @@ [sshd_config |-> Text(<<<<"passwordauthentication", "no">>, <<"permitrootlogin", "no">>>>),
        sudoers |-> Text(<<<<"includedir", "sudoers.d">>>>),
        passwd |-> Text(<<<<"user", "root", 0, "login", "x">>>>),
        shadow |-> Text(<<<<"hash", "root", "yescrypt">>>>),
        group |-> Text(<<<<"group", "docker", "root">>>>),
        keys_root |-> Text(<<<<"key", "a">>>>),
        core_pattern |-> Says("core"), lockdown |-> Says("none"),
        modules_disabled |-> Says("1"), kexec_load_disabled |-> Says("1"),
        tainted |-> Text(<<<<"bits", {12}>>>>), lsm |-> Says("apparmor"),
        modules |-> Says("ext4"), kallsyms |-> Says("ext4"), ext4 |-> Says("live"),
        sys_module |-> Dir({"ext4"}),
        enabled_functions |-> Text(<<<<"hook", "read", "bpf">>>>), kprobe_events |-> Text(<<>>),
        current_tracer |-> Says("nop"), mountinfo |-> Text(<<<<"mount", "home", "ext4">>>>),
        usr_bin |-> Dir({"su"}), su |-> Text(<<<<"setuid">>>>),
        dpkg_info |-> Dir({"login"}), login |-> Text(<<<<"owns", "su">>>>)]
    @@ ("sudoers.d" :> Dir({})) @@ ("pam.d" :> Dir({"sshd"})) @@ ("ld.so.conf" :> Text(<<>>))
    @@ ("ld.so.conf.d" :> Dir({})) @@ ("sshd" :> Text(<<<<"module", "pam_unix">>>>))

Proc(open, maps) ==
    [open |-> open, maps |-> maps, read |-> maps, complain |-> FALSE, netns |-> "host", mnt_ns |-> "host",
     exe |-> "init", holds |-> {}]

Clean ==
    [file |-> CleanFiles, dir |-> [p \in {} |-> ""], link |-> [p \in {} |-> ""], cap |-> 9,
     sshd |-> TRUE, keys |-> [root |-> "keys_root"], sysctl |-> {"suid_dumpable", "ip_forward"},
     volatile |-> {}, proc |-> 1 :> Proc(TRUE, {}), pam_dirs |-> {"pam_unix"}, vendor |-> {},
     deep |-> FALSE, other_fs |-> {}, inode |-> [p \in {} |-> ""], locked |-> {},
     systemctl |-> [state |-> "ok", units |-> {}], runtimes |-> <<>>,
     sockets |-> [host |-> {}], proc_net |-> TRUE, host_ns |-> "host", firewall |-> {},
     days |-> [p \in {} |-> 0],
     rpm |-> [p \in {} |-> ""], rpm_tool |-> TRUE, slow |-> {},
     busy |-> {"security"}, fragile |-> {}]

With(h, files) == [h EXCEPT !.file = files @@ @]
(* One of the paths closed, or replaced by a fifo, or the readers' cap lowered. *)
Hindered(h, paths) ==
    {h} \cup {[h EXCEPT !.file[p].open = FALSE] : p \in paths}
    \cup {[h EXCEPT !.file[p].kind = "special"] : p \in {q \in paths : is_file(h, q)}}
    \cup {[h EXCEPT !.cap = n] : n \in {0, 1}}

-------------------------------------------------------------------------------
Sudo ==
    LET alias(n, ms) == <<"alias", n, ms>>
        rules(token) == <<<<"nopasswd", "eve", token>>, alias("A", {"B"}), alias("B", {"C", "ls"}),
                          alias("C", {"ALL"}), alias("D", {"D", "ls"}), <<"include", "sudoers">>>>
        files(token, deep) == ("sudoers" :> Text(<<<<"include", "extra">>, <<"includedir", "sudoers.d">>>>))
            @@ ("extra" :> Text(rules(token))) @@ ("sudoers.d" :> Dir({"ops"}))
            @@ ("ops" :> Text(<<<<"include", "more">>, <<"noauth", "dan">>>>))
            @@ ("more" :> Text(<<<<"nopasswd", "zoe", "ALL">>>> \o deep))
            @@ (IF deep = <<>> THEN <<>> ELSE "last" :> Text(<<<<"nopasswd", "max", "ALL">>>>))
        h(token, deep) == With(Clean, files(token, deep))
    IN UNION {Hindered(h(t, <<>>), {"extra", "sudoers.d", "ops", "passwd"}) :
                t \in {"A", "B", "C", "D"}} \cup {h("ls", <<<<"include", "last">>>>)}

Pattern(at, glob, matched, plain) ==
    [at |-> at, glob |-> glob, matched |-> matched, plain |-> plain]
MCConfNames == {"over", "base"}

Sshd ==
    LET files(lines, names) == ("sshd_config" :> Text(lines)) @@ ("ssh.d" :> Dir(names))
            @@ ("over" :> Text(<<<<"passwordauthentication", "no">>, <<"forcecommand", "su">>>>))
            @@ ("base" :> Text(<<<<"x11forwarding", "no">>>>))
            @@ ("old" :> Text(<<<<"permitrootlogin", "yes">>, <<"passwordauthentication", "yes">>>>))
        listing(lines, names) == [With(Clean, files(lines, names)) EXCEPT !.sshd = FALSE]
        machine(lines) == listing(lines, {"over", "base", "old"})
        star == Pattern("ssh.d", "*", MCConfNames, TRUE)
        one == Pattern("over", "", {}, TRUE)
        rest == <<<<"passwordauthentication", "yes">>>>
        (* What sshd takes for an include and the fallback does not, or takes for another. *)
        odd == {<<"INCLUDE", <<star>>>>, <<"Include", <<one, star>>>>,
                <<"Include", <<Pattern("ssh.d", "*", {"old"}, TRUE)>>>>,
                <<"Include", <<Pattern("ssh.d", "?", {"over"}, TRUE)>>>>,
                <<"Include", <<Pattern("over", "", {}, FALSE)>>>>}
        plain == <<<<"permitrootlogin", "no">>, <<"Include", <<one>>>>, <<"match", "x">>,
                   <<"passwordauthentication", "no">>>>
    IN Hindered(machine(<<<<"Include", <<star>>>>>> \o rest), {"sshd_config", "ssh.d", "over"})
       \cup Hindered(listing(plain, {}), {"over"})
       \cup {machine(<<<<"Include", <<star>>>>, <<"permitrootlogin", "yes">>>>)}
       \cup {machine(<<l>> \o rest) : l \in odd}

Accounts ==
    LET h == With(Clean, ("passwd" :> Text(<<<<"user", "root", 0, "login", "x">>,
                                            <<"user", "toor", 0, "login", "empty">>,
                                            <<"user", "mail", 8, "sh", "x">>>>))
                    @@ ("shadow" :> Text(<<<<"hash", "root", "md5">>, <<"hash", "mail", "empty">>>>)))
    IN Hindered([h EXCEPT !.keys = ("toor" :> "keys_toor") @@ ("mail" :> "keys_toor") @@ @,
                          !.file["shadow"].unsafe = TRUE],
                {"passwd", "shadow", "group", "keys_root", "ip_forward"})

Kernel ==
    LET h == With(Clean, ("kallsyms" :> Text(<<<<"ext4">>, <<"rk">>>>))
                  @@ ("enabled_functions" :> Text(<<<<"hook", "read", "bpf">>, <<"hook", "open", "module">>>>))
                  @@ ("mountinfo" :> Text(<<<<"mount", "proc_pid", "tmpfs">>, <<"mount", "var_log", "bind">>>>))
                  @@ ("usr_lib" :> Dir({"pkg"})) @@ ("pkg" :> Dir({"helper", "ping"}))
                  @@ ("helper" :> Text(<<<<"setuid">>>>)) @@ ("ping" :> Text(<<<<"caps", "net_raw">>>>)))
        unit(id, answers) ==
            [id |-> id, answers |-> answers, live |-> TRUE, root |-> TRUE,
             lacks |-> {"ProtectHome", "PrivateTmp"}]
        units(us) == [h EXCEPT !.systemctl.units = us, !.locked = {"passwd"},
                               !.inode = [helper |-> "su", su |-> "su"]]
    IN Hindered(units({unit("cups", TRUE)}),
                {"modules", "kallsyms", "sys_module", "enabled_functions", "mountinfo", "tainted",
                 "passwd", "pkg", "usr_bin", "lsm", "kprobe_events"})
       \cup {units({unit("cups", TRUE), unit("ssh", FALSE)}),
             [h EXCEPT !.systemctl.state = "missing"], [h EXCEPT !.other_fs = {"pkg"}],
             With(h, "current_tracer" :> Says("function")),
             With(h, ("modules" :> Text(<<>>)) @@ ("tainted" :> Says("what"))),
             With(h, ("more_bins" :> Dir({}))
                     @@ ("usr_bin" :> Dir({"su", "a1", "a2"})) @@ ("a1" :> Text(<<<<"unparsed">>>>))
                     @@ ("a2" :> Text(<<<<"setuid">>>>)))}

-------------------------------------------------------------------------------
Persistence ==
    LET files == ("ld.so.preload" :> Text(<<<<"lib", "evil">>>>)) @@ ("evil" :> Text(<<>>))
            @@ ("ld.so.conf" :> Text(<<<<"include", "ld.so.conf.d">>, <<"dir", "tmp">>>>))
            @@ ("ld.so.conf.d" :> Dir({"c1"})) @@ ("c1" :> Text(<<<<"dir", "opt">>>>))
            @@ ("tmp" :> [Dir({}) EXCEPT !.unsafe = TRUE]) @@ ("opt" :> [Dir({}) EXCEPT !.unsafe = TRUE])
            @@ ("pam.d" :> Dir({"sshd"})) @@ ("sshd" :> Text(<<<<"exec", "evil">>, <<"module", "pam_x">>>>))
            @@ ("pam_x" :> Text(<<>>))
            @@ ("etc_generators" :> Dir({"gen"})) @@ ("gen" :> [Text(<<>>) EXCEPT !.unsafe = TRUE])
            @@ ("etc_units" :> Dir({"u1", "u1.d"})) @@ ("u1.d" :> Dir({"dropin"}))
            @@ ("u1" :> Text(<<<<"User", "joe">>, <<"Exec", "gen">>>>))
            @@ ("dropin" :> Text(<<<<"Exec", "evil">>>>))
            @@ ("crontab" :> Text(<<<<"cron", "hidden", "root">>>>))
            @@ ("vault" :> Dir({"hidden"})) @@ ("hidden" :> Text(<<>>))
        h == [With(Clean, files) EXCEPT !.busy = {"persistence"}, !.dir = [hidden |-> "vault"],
                !.volatile = {"evil"},
                !.proc = (1 :> Proc(TRUE, {})) @@ (2 :> Proc(TRUE, {"evil"}))]
    IN Hindered(h, {"ld.so.preload", "ld.so.conf", "ld.so.conf.d", "c1", "pam.d", "sshd", "u1", "u1.d",
                    "dropin", "etc_units", "etc_generators", "crontab", "lockdown", "modules_disabled",
                    "core_pattern", "vault"})
       \cup {[h EXCEPT !.proc[2].open = FALSE], [h EXCEPT !.proc[2].read = {}],
             With(h, ("ld.so.conf.d" :> Dir({"c1", "c2"})) @@ ("c2" :> Text(<<<<"dir", "tmp">>>>))),
             With(h, ("ld.so.conf.d" :> Dir({"c1", "c2", "c3"})) @@ ("c2" :> Text(<<>>))
                     @@ ("c3" :> Text(<<>>))),
             With(h, ("pam.d" :> Dir({"sshd", "su"})) @@ ("su" :> Text(<<<<"exec", "gen">>, <<"exec", "tmp">>>>))),
             With(h, ("etc_generators" :> Dir({"gen", "g2", "g3"})) @@ ("g2" :> Text(<<>>))
                     @@ ("g3" :> Text(<<>>)))}

(* The package databases, asked by two tasks about one file, and panics in between. *)
Packages ==
    LET files == ("ld.so.preload" :> Text(<<<<"lib", "su">>>>))
        h == [With(Clean, files) EXCEPT !.busy = {"security", "persistence"},
                                       !.fragile = {"security", "persistence"}]
        two == With(h, ("dpkg_info" :> Dir({"login", "other"})) @@ ("other" :> Text(<<<<"owns", "x">>>>)))
        without(db) == [h EXCEPT !.file = [p \in DOMAIN @ \ {"dpkg_info"} |-> @[p]]]
        rpm == [With(without("dpkg"), "rpmdb" :> Dir({})) EXCEPT !.rpm = [su |-> "util"],
                    !.slow = {"su"}]
        apk == With(without("dpkg"), "apk_installed" :> Text(<<<<"R", "x", "p">>, <<"R", "su", "util">>>>))
    IN {h, two, [two EXCEPT !.file["login"].open = FALSE], [h EXCEPT !.file["dpkg_info"].open = FALSE],
        rpm, [rpm EXCEPT !.rpm_tool = FALSE], without("dpkg"), apk, [apk EXCEPT !.cap = 1],
        [apk EXCEPT !.file["apk_installed"].open = FALSE]}

Containers ==
    LET c(name, ns, ok) ==
            [name |-> name, running |-> TRUE, ports |-> {<<"0.0.0.0", 80>>, <<"127.0.0.1", 22>>},
             netns |-> ns, mnt_ns |-> ns, inspect |-> ok]
        runtime(state, fails, cs) ==
            [name |-> "Docker", state |-> state, fails |-> fails, containers |-> cs]
        apart(n, ns) == [Proc(TRUE, {}) EXCEPT !.netns = ns, !.mnt_ns = ns, !.holds = {n}]
        files == ("resolv.conf" :> Text(<<<<"nameserver", "stub">>>>))
                 @@ ("run_resolv" :> Text(<<<<"nameserver", "stub">>, <<"nameserver", "up">>>>))
                 @@ ("hosts" :> Text(<<<<"override", "x">>>>))
                 @@ ("letsencrypt" :> Dir({"c1", "c2"}))
        h == [With(Clean, files) EXCEPT !.busy = {"docker", "network", "mount_namespace", "host"},
                !.fragile = {"docker", "network"}, !.firewall = {"nft"}, !.days = [c1 |-> 6],
                !.proc = (1 :> [Proc(TRUE, {}) EXCEPT !.holds = {1}]) @@ (2 :> apart(2, "n1")),
                !.sockets = [host |-> {<<1, 22>>, <<2, 22>>}, n1 |-> {<<3, 80>>}]]
        with(r) == [h EXCEPT !.runtimes = <<r>>]
        live == with(runtime("live", {}, {c(1, "n1", TRUE), c(2, "n1", TRUE)}))
    IN {h, live, with(runtime("wedged", {}, {})), with(runtime("live", {"containers", "df"}, {c(1, "n1", TRUE)})),
        with(runtime("live", {"images", "sizes"}, {c(1, "n1", FALSE)})),
        [live EXCEPT !.runtimes = @ \o @], [live EXCEPT !.proc[2].open = FALSE],
        [live EXCEPT !.proc[1].open = FALSE], [h EXCEPT !.proc_net = FALSE],
        [h EXCEPT !.file["hosts"].open = FALSE], [h EXCEPT !.file["run_resolv"].open = FALSE],
        [live EXCEPT !.proc = @ @@ (3 :> apart(4, "n2"))],
        [h EXCEPT !.firewall = {}, !.busy = {"network"}, !.fragile = {}, !.sockets["host"] = {<<1, 22>>}]}

MCWord == STRING
(* The cap of a reader holds for every file it reads. *)
MCHosts ==
    {[h EXCEPT !.cap = [p \in DOMAIN h.file |-> h.cap]] :
        h \in Sudo \cup Sshd \cup Accounts \cup Kernel \cup Persistence \cup Packages \cup Containers}
===============================================================================
