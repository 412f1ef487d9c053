------------------------------ MODULE AccessScan ------------------------------
(***************************************************************************)
(* What the security scanner reads of who may log in and become root       *)
(* (src/scanners/security.rs, sudoers.rs, access.rs, account_hygiene.rs).  *)
(* A line of a file is a tuple whose first member says what it is.         *)
(***************************************************************************)
EXTENDS SafeIo

CONSTANTS
    ConfNames,            \* the paths whose name ends in .conf and does not start with a dot
    MAX_ALIAS_DEPTH,
    MAX_INCLUDE_DEPTH,
    MAX_SUDOERS_FILES
ASSUME SudoersLimits == {MAX_ALIAS_DEPTH, MAX_INCLUDE_DEPTH, MAX_SUDOERS_FILES} \subseteq Nat

-------------------------------------------------------------------------------
(* sshd: the effective configuration, or the fallback parser. *)
SSHD_SENSITIVE ==
    {"authorizedkeyscommand", "authorizedkeyscommanduser", "forcecommand", "permituserenvironment",
     "trustedusercakeys", "authorizedprincipalsfile", "subsystem"}
neutral(key, val) ==
    \/ key = "permituserenvironment" /\ val = "no"
    \/ key \in {"forcecommand", "authorizedkeyscommand", "trustedusercakeys"} /\ val = "none"

(* The first value of a directive wins. *)
first_value(lines, key, default) ==
    LET is(i) == lines[i][1] = key
        at == {i \in DOMAIN lines : is(i)}
    IN IF at = {} THEN default ELSE lines[Min(at)][2]

sshd_facts(h, lines, root_default) ==
    Where(first_value(lines, "passwordauthentication", "yes") = "yes", {<<"password_auth">>})
    \cup {<<"root_login", first_value(lines, "permitrootlogin", root_default)>>}
    \cup {<<"sshd_directives", l[1], assess_writability(h, l[2])>> :
            l \in {m \in ToSet(lines) : m[1] \in SSHD_SENSITIVE /\ ~neutral(m[1], m[2])}}

before_match(lines) ==
    LET at == {i \in DOMAIN lines : lines[i][1] = "match"}
    IN IF at = {} THEN lines ELSE SubSeq(lines, 1, Min(at) - 1)

(* An include is <<"Include", patterns>>, or <<"INCLUDE", patterns>> when the word is spelled in
   any other case.  A pattern: at, the file or the directory that sshd takes it for, which is
   below /etc/ssh when the path is relative; glob, what its last component contains ("*", "?"
   when there are metacharacters but no star, or neither); matched, what it matches; plain,
   whether it is an absolute path without quotes and without metacharacters before that. *)
Includes == {"Include", "INCLUDE"}
alone(l) == l[2] = <<l[2][1]>>

(* The fallback takes all that follows the word Include for one path, and any star for the
   *.conf of its directory.  Of other patterns it finds no file: the mapper does not run in
   /etc/ssh. *)
fallback_included_noGlob(h, l) ==
    LET p == l[2][1]
    IN IF alone(l) /\ p.plain /\ p.glob = "" THEN <<p.at>> ELSE <<>>
fallback_included(h, l) ==
    LET p == l[2][1]
    IN IF ~alone(l) \/ ~p.plain \/ p.glob = "?" THEN <<>>
       ELSE IF p.glob = "*" THEN SetToSeq(dir_entries(h, p.at) \cap ConfNames)
       ELSE <<p.at>>

(* The lines of an include take its place; they are not searched for further includes.  A word
   that the fallback does not know is a directive like another. *)
fallback_lines(h, line) ==
    IF line[1] # "Include" THEN <<line>>
    ELSE LET files == fallback_included(h, line)
         IN FlattenSeq([i \in DOMAIN files |-> read_file_capped_regular(h, files[i]).lines])

fallback_parse_main_config(h) ==
    LET r == read_file_capped_regular(h, "sshd_config")
        lines == FlattenSeq([i \in DOMAIN r.lines |-> fallback_lines(h, r.lines[i])])
        parts == UNION {ToSet(fallback_included(h, l)) :
                            l \in {m \in ToSet(r.lines) : m[1] = "Include"}}
        undecided == {k \in {"passwordauthentication", "permitrootlogin"} :
                        \A l \in ToSet(before_match(lines)) : l[1] # k}
        facts == sshd_facts(h, before_match(lines), "yes")
    IN Piece({f \in facts : f[1] # "root_login" \/ f[2] = "no"}
                \cup Where(<<"root_login", "no">> \notin facts, {<<"root_login", "yes">>}),
             Notes("sshd_config", r, ErrorsButMissing)
                \cup (UNION {Notes(p, read_file_capped_regular(h, p), {"InvalidData"}) : p \in parts})
                \cup Where(before_match(lines) # lines /\ undecided # {},
                           {<<"sshd_config", "match">>}))

(* sshd -T: every include expanded, to the depth sshd allows, conditional blocks left out.  sshd
   reads as root, and to the end. *)
SERVCONF_MAX_DEPTH == 16
sshd_included(h, l) ==
    FlattenSeq([i \in DOMAIN l[2] |->
        LET p == l[2][i]
        IN IF p.glob = "" THEN <<p.at>> ELSE SetToSeq(p.matched \cap children(h, p.at))])
sshd_line(h, line, inside) ==
    IF line[1] \notin Includes THEN <<line>>
    ELSE LET files == sshd_included(h, line)
         IN FlattenSeq([i \in DOMAIN files |-> IF is_file(h, files[i]) THEN inside[files[i]] ELSE <<>>])
sshd_lines(h) ==
    LET all == unhindered(h, {}, {})
        expanded[d \in 0..SERVCONF_MAX_DEPTH] ==
            [p \in DOMAIN all.file |->
                IF d = 0 THEN <<>>
                ELSE LET lines == all.file[p].lines
                     IN FlattenSeq([i \in DOMAIN lines |-> sshd_line(all, lines[i], expanded[d - 1])])]
    IN IF exists(h, "sshd_config") THEN expanded[SERVCONF_MAX_DEPTH]["sshd_config"] ELSE <<>>
sshd_T(h) == sshd_facts(h, before_match(sshd_lines(h)), "prohibit-password")

scan_sshd(h) == IF h.sshd THEN Piece(sshd_T(h), {}) ELSE fallback_parse_main_config(h)

-------------------------------------------------------------------------------
(* Sudoers: a worklist of files, last in first out, with a budget and a depth limit.  Of a
   directory the regular files are read. *)
regular(h, paths) == {p \in paths : is_file(h, p)}
targets(h, line) ==
    IF line[1] = "include" THEN <<line[2]>>
    ELSE IF line[1] = "includedir" THEN SetToSeq(regular(h, dir_entries(h, line[2]))) ELSE <<>>
leads_to(h, f) ==
    LET lines == read_file_capped_regular(h, f).lines
    IN IF is_dir(h, f) THEN SetToSeq(regular(h, dir_entries(h, f)))
       ELSE FlattenSeq([i \in DOMAIN lines |-> targets(h, lines[i])])
queued(files, depth) == [i \in DOMAIN files |-> [file |-> files[i], depth |-> depth]]

Progress(queue, visited, entries, warns) ==
    [queue |-> queue, visited |-> visited, entries |-> entries, warns |-> warns]
next_file(h, s) ==
    LET top == Last(s.queue)
        f == top.file
        popped == Front(s.queue)
        pushed == popped \o queued(leads_to(h, f), top.depth + 1)
        r == read_file_capped_regular(h, f)
    IN IF s.queue = <<>> THEN s
       ELSE IF Cardinality(s.visited) >= MAX_SUDOERS_FILES
            THEN Progress(<<>>, s.visited, s.entries, s.warns \cup {<<f, "budget">>})
       ELSE IF top.depth > MAX_INCLUDE_DEPTH
            THEN Progress(popped, s.visited, s.entries, s.warns \cup {<<f, "depth">>})
       ELSE IF f \in s.visited THEN Progress(popped, s.visited, s.entries, s.warns)
       ELSE IF is_dir(h, f) THEN Progress(pushed, s.visited \cup {f}, s.entries, s.warns)
       ELSE Progress(pushed, s.visited \cup {f}, s.entries \cup ToSet(r.lines),
                     s.warns \cup Notes(f, r, AnyError))

(* A file is opened once and no more than MAX_SUDOERS_FILES are: after so many turns the queue
   is empty. *)
turns(h, roots) ==
    LET longest == Max({Len(h.file[p].lines) : p \in DOMAIN h.file} \cup {0})
        broadest == Max({Cardinality(h.file[p].children) : p \in DOMAIN h.file} \cup {0})
    IN Len(roots) + MAX_SUDOERS_FILES * ((longest + 1) * (broadest + 1))
each_sudoers_entry_from(h, roots) ==
    LET start == Progress(queued(roots, 0), {}, {}, {})
        after[n \in 0..turns(h, roots)] == IF n = 0 THEN start ELSE next_file(h, after[n - 1])
    IN after[turns(h, roots)]

scan_sudoers(h) == each_sudoers_entry_from(h, <<"sudoers", "sudoers.d">>)

(* Cmnd_Alias lines: name and members.  A name is defined once: sudo refuses a second time. *)
aliases(lines) == {l \in lines : l[1] = "alias"}
tokens(lines, token) == {"ALL", token} \cup UNION {{l[2]} \cup l[3] : l \in aliases(lines)}
members(lines, name) == UNION {l[3] : l \in {m \in aliases(lines) : m[2] = name}}
resolves_to_all_cutIsNo(lines, token) ==
    LET within[n \in 0..MAX_ALIAS_DEPTH] ==
            [t \in tokens(lines, token) |->
                IF t = "ALL" \/ (n > 0 /\ \E m \in members(lines, t) : within[n - 1][m] = "yes")
                THEN "yes" ELSE "no"]
    IN within[MAX_ALIAS_DEPTH][token]
(* yes, no, or cut: one branch was longer than the limit and none leads to ALL. *)
resolves_to_all(lines, token) ==
    LET within[n \in 0..MAX_ALIAS_DEPTH] ==
            [t \in tokens(lines, token) |->
                LET below == {within[n - 1][m] : m \in members(lines, t)}
                IN IF t = "ALL" THEN "yes"
                   ELSE IF n = 0 THEN "cut"
                   ELSE IF "yes" \in below THEN "yes"
                   ELSE IF "cut" \in below THEN "cut" ELSE "no"]
    IN within[MAX_ALIAS_DEPTH][token]

(* is_nopasswd_all and defaults_no_authenticate: who becomes root without a password. *)
sudoers_nopasswd_all(h) ==
    LET scan == scan_sudoers(h)
        rules == {e \in scan.entries : e[1] = "nopasswd"}
        verdict(e) == resolves_to_all(scan.entries, e[3])
        free == {x \in rules : verdict(x) = "yes"} \cup {x \in scan.entries : x[1] = "noauth"}
    IN Piece({<<"sudoers_nopasswd_all", e[2]>> : e \in free},
             scan.warns \cup {<<e[3], "alias chain">> : e \in {x \in rules : verdict(x) = "cut"}})

(* The rule that lets the scanner itself run as root is left out, and said to be, when nobody
   else can replace its binary. *)
gather_sudo_nopasswd(h) ==
    LET rules == {e \in scan_sudoers(h).entries : e[1] \in {"nopasswd", "noauth"}}
        own == {e \in rules : e[1] = "nopasswd" /\ e[3] = "owlzops-mapper"
                              /\ assess_writability(h, e[3]) = "RootOnly"}
    IN Piece({<<"sudo_nopasswd_entries", e[2], e[1]>> : e \in rules \ own},
             Where(own # {}, {<<"owlzops-mapper", "excluded">>}))

-------------------------------------------------------------------------------
(* Accounts.  A line of passwd: <<"user", name, uid, shell, pw>>, with the key file of its home. *)
passwd(h) == read_file_capped_regular(h, "passwd")
users(h) == {l \in ToSet(passwd(h).lines) : l[1] = "user"}
login_users(h) == {u \in users(h) : u[4] = "login"}

shell_users(h) ==
    LET keys(u) == read_file_capped_regular(h, h.keys[u[2]]) IN
    Piece({<<"shell_users", u[2], Len(keys(u).lines)>> : u \in login_users(h)},
          Notes("passwd", passwd(h), AnyError)
          \cup UNION {Notes(h.keys[u[2]], keys(u), ErrorsButMissing) : u \in login_users(h)})

(* The notes of this part are kept in access_alignment.coverage_warnings of the report. *)
gather_access_alignment(h) ==
    LET keys(u) == read_file_capped_regular(h, h.keys[u[2]])
        group == read_file_capped_regular(h, "group")
        holders == {u \in users(h) : u[4] # "nologin"}
        notes == Notes("passwd", passwd(h), AnyError) \cup Notes("group", group, AnyError)
                 \cup UNION {Notes(h.keys[u[2]], keys(u), ErrorsButMissing) : u \in holders}
    IN Piece((UNION {{<<"keys", u[2], k>> : k \in ToSet(keys(u).lines)} : u \in holders})
             \cup {<<"root_equivalent_groups", g[2], g[3]>> : g \in ToSet(group.lines)}
             \cup {<<"access_alignment.coverage_warnings", n[1], n[2]>> : n \in notes}, {})

classify_hash(pw) == IF pw \in {"md5", "sha256", "des"} THEN {pw} ELSE {}

(* Credential files: a path of which not even the mode can be read is counted. *)
credentials(h) == {"shadow", "gshadow", "sudoers.d", "private_key", "history"}
scan_account_hygiene(h) ==
    LET shadow == read_file_capped_regular(h, "shadow")
        hashes == ToSet(shadow.lines)
        unread == {p \in credentials(h) : hidden_by_dir(h, p)}
        too_open == {p \in credentials(h) : exists(h, p) /\ p \notin unread /\ h.file[p].unsafe}
    IN IF passwd(h).err # "none" THEN Piece({}, Notes("passwd", passwd(h), AnyError))
       ELSE Piece(
            {<<"duplicate_uid_zero", u[2]>> : u \in {x \in users(h) : x[3] = 0 /\ x[2] # "root"}}
            \cup {<<"system_accounts_with_shell", u[2]>> :
                    u \in {x \in users(h) : x[3] \in 1..999 /\ x[4] # "nologin"}}
            \cup {<<"empty_password_users", l[2]>> :
                    l \in {x \in users(h) : x[5] = "empty"} \cup {x \in hashes : x[3] = "empty"}}
            \cup {<<"weak_password_hashes", l[2]>> :
                    l \in {x \in users(h) : x[5] \notin {"x", "empty", "locked"}}
                            \cup {x \in hashes : classify_hash(x[3]) # {}}}
            \cup {<<"file_permission_issues", p>> : p \in too_open},
            Notes("passwd", passwd(h), AnyError)
            \cup Notes("shadow", shadow, ErrorsButMissing)
            \cup Where(exists(h, "sudoers.d") /\ ~h.file["sudoers.d"].open,
                       {<<"sudoers.d", "unreadable">>})
            \cup Where(unread # {}, {<<"credentials", "unreadable">>}))

(* suid_dumpable may be 2 when core dumps go to a program. *)
sysctl_ok(h, p, v) ==
    \/ v = <<"expected">>
    \/ p = "suid_dumpable" /\ v = <<"2">>
       /\ read_procfs_capped(h, "core_pattern").lines = <<<<"pipe">>>>
gather_sysctl_issues(h) ==
    LET value(p) == read_procfs_capped(h, p)
        read == {p \in h.sysctl : value(p).lines # <<>>}
    IN Piece({<<"sysctl_issues", p>> : p \in {q \in read : ~sysctl_ok(h, q, value(q).lines[1])}},
             UNION {Notes(p, value(p), {}) : p \in h.sysctl})

AccessScan(h) ==
    All({scan_sshd(h), sudoers_nopasswd_all(h), gather_sudo_nopasswd(h), shell_users(h),
         gather_access_alignment(h), gather_sysctl_issues(h)})

(* Where a read that fails is passed over without a word, and where a cut is. *)
AccessSilent(h) ==
    LET named(files, kinds) == {l[2] : l \in {m \in lines_in(h, files) : m[1] \in kinds}}
        sshd == {p.at : p \in UNION {ToSet(l[2]) :
                        l \in {m \in lines_in(h, {"sshd_config"}) : m[1] = "Include"}}}
        sudo == {"sudoers"} \cup named(DOMAIN h.file, {"include", "includedir"})
    IN [errors |-> sshd \cup (UNION {children(h, d) : d \in sshd}) \cup h.sysctl
                   \cup {"core_pattern"} \cup {p \in sudo : is_dir(h, p)},
        cuts |-> {"core_pattern"}]
===============================================================================
