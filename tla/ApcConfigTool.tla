--------------------------- MODULE ApcConfigTool ---------------------------
(***************************************************************************)
(* update-apc-config.py: the command that manages the APC configurations  *)
(* of one host.  A configuration named n is two files, the supervisor     *)
(* program file etc/supervisor.conf.d/n.conf and the APC's own conf/n.conf *)
(* (host, port, api-device, reset-device).  Each run of the tool performs *)
(* one subcommand: add, update, delete, auto or stunnel (status, and      *)
(* stunnel without --host, only read).  The first four end with          *)
(* apply_config(), which runs `supervisorctl reread` and `update`.        *)
(*                                                                         *)
(* The environment is supervisord: `update` starts the programs whose     *)
(* program file is new, stops those whose file is gone, and leaves a      *)
(* program whose file is unchanged running.  An APC reads conf/n.conf     *)
(* when it starts.  The program file is made from a template that depends *)
(* only on the name, so rewriting it never changes it.                    *)
(*                                                                         *)
(* Names are numbers so that glob()'s sorted order is <.  Of the four     *)
(* fields update can set, the host stands for all of them: the code       *)
(* treats them alike.                                                     *)
(***************************************************************************)
EXTENDS Naturals, Sequences, SequencesExt

CONSTANTS
    Names,      \* configuration names (n.conf), ordered as glob() sorts them
    AllNames,   \* the names n with n.upper() = 'ALL'
    Hosts,      \* values `update --host` may set
    Template,   \* the contents apc.conf.template gives a new conf/n.conf
    NoConf,     \* conf/n.conf does not exist / program n is not running
    NoArg       \* an option left out (args.host is None)

ASSUME Names \subseteq Nat /\ AllNames \subseteq Names
ASSUME {Template, NoConf, NoArg} \cap Hosts = {}

Confs == Hosts \cup {Template}

VARIABLES
    superConf,  \* names with a program file in SUPERVISOR_CONF_DIR
    apcConf,    \* the contents of conf/n.conf, or NoConf
    running,    \* the conf each running APC was started with, or NoConf
    stunnelConf \* the manager host of etc/stunnel/apc_stunnel.conf (staged),
                \* of /etc/stunnel/apc_stunnel.conf (installed) and of the
                \* running stunnel4 (run), or NoConf

vars == <<superConf, apcConf, running, stunnelConf>>

StunnelFiles == {"staged", "installed", "run"}

TypeOK ==
    /\ superConf \subseteq Names
    /\ apcConf \in [Names -> Confs \cup {NoConf}]
    /\ running \in [Names -> Confs \cup {NoConf}]
    /\ stunnelConf \in [StunnelFiles -> Hosts \cup {NoConf}]

Init ==
    /\ superConf = {}
    /\ apcConf = [n \in Names |-> NoConf]
    /\ running = [n \in Names |-> NoConf]
    /\ stunnelConf = [f \in StunnelFiles |-> NoConf]

\* apply_config(): reread and update.  supervisord starts a program whose
\* file is new (the APC reads its conf file then), stops one whose file is
\* gone, and leaves the others alone.
Supervised(sup, apc) ==
    [n \in Names |-> IF n \notin sup THEN NoConf
                     ELSE IF running[n] = NoConf THEN apc[n]
                     ELSE running[n]]

\* add_apc(): write the program file, then conf/n.conf, both from their
\* templates and over any existing file (create_file_from_template always
\* returns True), then apply_config().
add_apc(n) ==
    LET apc == [apcConf EXCEPT ![n] = Template]
    IN  /\ superConf' = superConf \cup {n}
        /\ apcConf' = apc
        /\ running' = Supervised(superConf', apc)
        /\ UNCHANGED stunnelConf

\* auto(): add_apc() for each AP mote found under /dev/serial/by-id, in
\* sorted order, named apc-<last six digits of its MAC>; when the MAC cannot
\* be read twice the tool exits, keeping the configurations already added.
\* ds is the set added before the loop ended.  Each add_apc() applies the
\* configuration, and a started APC reads the Template conf in every order.
auto(ds) ==
    /\ superConf' = superConf \cup ds
    /\ apcConf' = [n \in Names |-> IF n \in ds THEN Template ELSE apcConf[n]]
    /\ running' = Supervised(superConf', apcConf')
    /\ UNCHANGED stunnelConf

\* Mutant: update writes an option even when it was left out.
update_writesNone(n, h) ==
    /\ apcConf[n] # NoConf
    /\ apcConf' = [apcConf EXCEPT ![n] = h]
    /\ running' = Supervised(superConf, apcConf')
    /\ UNCHANGED <<superConf, stunnelConf>>

\* update_apc(): raise IOError when conf/n.conf does not exist; set each
\* option given; if one was, rewrite the file and apply_config().
update_apc(n, h) ==
    /\ apcConf[n] # NoConf
    /\ h # NoArg
    /\ apcConf' = [apcConf EXCEPT ![n] = h]
    /\ running' = Supervised(superConf, apcConf')
    /\ UNCHANGED <<superConf, stunnelConf>>

\* The outcome of removing the files of the names in seq, in order: the
\* program file, then conf/n.conf; a failed os.remove() is re-raised and
\* ends the loop.
RECURSIVE RemoveEach(_, _, _)
RemoveEach(seq, sup, apc) ==
    IF seq = <<>> THEN [sup |-> sup, apc |-> apc, ok |-> TRUE]
    ELSE LET n == Head(seq)
         IN  IF n \notin sup THEN [sup |-> sup, apc |-> apc, ok |-> FALSE]
             ELSE IF apc[n] = NoConf
                  THEN [sup |-> sup \ {n}, apc |-> apc, ok |-> FALSE]
                  ELSE RemoveEach(Tail(seq), sup \ {n},
                                  [apc EXCEPT ![n] = NoConf])

\* Mutant: delete one configuration removes the program file only.
delete_keepConf(n) ==
    /\ n \in superConf
    /\ superConf' = superConf \ {n}
    /\ running' = Supervised(superConf', apcConf)
    /\ UNCHANGED <<apcConf, stunnelConf>>

\* delete_apc(): a name whose upper case is ALL deletes every configuration
\* listed in SUPERVISOR_CONF_DIR, in sorted order; any other name deletes
\* its own two files.  apply_config() runs only when no removal raised.
delete_apc(n) ==
    LET r == RemoveEach(IF n \in AllNames THEN SetToSortSeq(superConf, <)
                                          ELSE <<n>>,
                        superConf, apcConf)
    IN  /\ superConf' = r.sup
        /\ apcConf' = r.apc
        /\ running' = IF r.ok THEN Supervised(r.sup, r.apc) ELSE running
        /\ UNCHANGED stunnelConf

\* stunnel --host h: write the staged file from its template, then three
\* check_call()s: cp it to /etc/stunnel, `service stunnel4 stop`,
\* `stunnel4 /etc/stunnel/apc_stunnel.conf`.  check_call raises on a
\* non-zero exit (its `if ret` branches never run), so the first command
\* that fails ends the tool; ok is how many of the three succeeded.
stunnel(h, ok) ==
    LET staged    == h
        installed == IF ok >= 1 THEN staged ELSE stunnelConf["installed"]
        run       == CASE ok = 3 -> installed
                       [] ok = 2 -> NoConf
                       [] OTHER  -> stunnelConf["run"]
    IN  /\ stunnelConf' = [staged |-> staged, installed |-> installed, run |-> run]
        /\ UNCHANGED <<superConf, apcConf, running>>

\* main(): one subcommand per run of the tool.
Next ==
    \/ \E n \in Names : add_apc(n)
    \/ \E n \in Names, h \in Hosts \cup {NoArg} : update_apc(n, h)
    \/ \E n \in Names : delete_apc(n)
    \/ \E ds \in SUBSET (Names \ AllNames) : auto(ds)
    \/ \E h \in Hosts, ok \in 0..3 : stunnel(h, ok)

Spec == Init /\ [][Next]_vars

(***************************************************************************)
(* Properties.                                                             *)
(***************************************************************************)

\* status() lists every program file and reads its conf/n.conf; a missing
\* one makes truncate_str(None) raise.  Every configuration has both files
\* or neither, whatever sequence of add, update and delete (one or ALL)
\* was run.
ConfPairsConsistent ==
    \A n \in Names : (n \in superConf) <=> (apcConf[n] # NoConf)

\* The header says the update command modifies a configuration: every
\* running APC runs with what its conf/n.conf says now.
RunningUsesItsConf ==
    \A n \in Names : running[n] # NoConf => running[n] = apcConf[n]

====
