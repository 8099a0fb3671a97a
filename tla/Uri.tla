---------------------------------- MODULE Uri ----------------------------------
(***************************************************************************)
(* cifs_uri_parse (uri.c): URIs and UNC names of files on a server, names  *)
(* of local files. A text is a sequence of tokens: names, the separators   *)
(* ":", "/", "@" and "\", and escapes, which are read as what they stand   *)
(* for before the text is taken apart.                                     *)
(***************************************************************************)
EXTENDS Integers, Sequences

CONSTANTS
    Absent,     \* NULL
    Escapes,    \* escapes and what they stand for
    Numbers,    \* the tokens that are numbers, and their values
    Addresses   \* what a user may mean: a cifs_uri_t with scheme URI_CIFS

VARIABLE uri    \* the address that was written and read, if any

Holds(s, c) == \E i \in DOMAIN s : s[i] = c
Join(a, c, b) == a \o (<<c>> \o b)

\* cifs_uri_unescape
Unescape(text) ==
    [i \in DOMAIN text |-> IF text[i] \in DOMAIN Escapes THEN Escapes[text[i]] ELSE text[i]]

\* strchr, strrchr: the place of c, or 0; what stands before and after a place.
FirstOf(s, c) ==
    IF Holds(s, c) THEN CHOOSE i \in DOMAIN s : s[i] = c /\ \A j \in DOMAIN s : s[j] = c => i <= j ELSE 0
LastOf(s, c) ==
    IF Holds(s, c) THEN CHOOSE i \in DOMAIN s : s[i] = c /\ \A j \in DOMAIN s : s[j] = c => j <= i ELSE 0
Before(s, i) == SubSeq(s, 1, i - 1)
After(s, i)  == SubSeq(s, i + 1, Len(s))

\* strncmp compares no more than the text has before "://": a beginning will do.
Begins(s, names) == s = <<>> \/ (Len(s) = 1 /\ s[1] \in names)
SchemeOf(s) ==
    IF Begins(s, {"f", "fi", "fil", "file"}) THEN "file"
    ELSE IF Begins(s, {"c", "ci", "cif", "cifs", "s", "sm", "smb"}) THEN "cifs" ELSE "none"

Atoi(s) == IF s # <<>> /\ s[1] \in DOMAIN Numbers THEN Numbers[s[1]] ELSE 0

\* path, and its parts before and after the last separator.
Place(a) ==
    LET i == LastOf(a, "/")
    IN  [path |-> a,
         dir  |-> IF i = 0 THEN <<>> ELSE Before(a, i),
         file |-> IF i = 0 THEN a ELSE After(a, i)]

\* Mutant of UserPart: the colon before a port is taken for that before a password.
UserPartAll(s) ==
    LET at == FirstOf(s, "@") co == FirstOf(s, ":")
    IN  CASE at = 0 -> [user |-> Absent, password |-> Absent]
          [] at > 0 /\ co > 0 -> [user |-> Before(s, co), password |-> SubSeq(s, co + 1, at - 1)]
          [] OTHER  -> [user |-> Before(s, at), password |-> Absent]

\* [user[:password]@]
UserPart(s) ==
    LET at == FirstOf(s, "@")
        u == Before(s, at)
        co == FirstOf(u, ":")
    IN  CASE at = 0 -> [user |-> Absent, password |-> Absent]
          [] at # 0 /\ co # 0 -> [user |-> Before(u, co), password |-> After(u, co)]
          [] OTHER  -> [user |-> u, password |-> Absent]

\* host[:[addr:]port]
HostPart(s) ==
    LET h == After(s, FirstOf(s, "@"))
        co == FirstOf(h, ":")
        to == LastOf(h, ":")
    IN  IF co = 0 THEN [host |-> h, addr |-> Absent, port |-> 0]
        ELSE [host |-> Before(h, co),
              addr |-> IF co = to THEN Absent ELSE SubSeq(h, co + 1, to - 1),
              port |-> Atoi(After(h, to))]

\* The share, if something follows the host.
TreePart(a) ==
    LET b == FirstOf(a, "/")
    IN  CASE a = <<>> -> [tree |-> Absent, place |-> Place(a)]
          [] a # <<>> /\ b # 0 -> [tree |-> Before(a, b), place |-> Place(After(a, b))]
          [] OTHER -> [tree |-> a, place |-> Place(<<>>)]

Remote(a) ==
    LET b == FirstOf(a, "/")
        s == IF b = 0 THEN a ELSE Before(a, b)
        u == UserPart(s)
        h == HostPart(s)
        t == TreePart(IF b = 0 THEN <<>> ELSE After(a, b))
    IN  [scheme |-> "cifs", user |-> u.user, password |-> u.password,
         host |-> h.host, addr |-> h.addr, port |-> h.port,
         tree |-> t.tree, path |-> t.place.path, dir |-> t.place.dir, file |-> t.place.file]

Local(a) ==
    [scheme |-> "file", user |-> Absent, password |-> Absent, host |-> Absent,
     addr |-> Absent, port |-> 0, tree |-> Absent,
     path |-> a, dir |-> Place(a).dir, file |-> Place(a).file]

Replaced(s, old, new) == [i \in DOMAIN s |-> IF s[i] = old THEN new ELSE s[i]]

\* strstr(a, "://")
Marks(s) == {i \in 1..Len(s) - 2 : s[i] = ":" /\ s[i+1] = "/" /\ s[i+2] = "/"}

\* cifs_uri_parse; Absent for a scheme that it does not know.
Parse(text) ==
    LET s == Unescape(text)
        b == CHOOSE i \in Marks(s) : \A j \in Marks(s) : i <= j
        scheme == SchemeOf(Before(s, b))
    IN  IF Len(s) > 1 /\ s[1] = "\\" /\ s[2] = "\\" THEN Remote(After(Replaced(s, "\\", "/"), 2))
        ELSE IF Marks(s) = {} THEN Local(s)
        ELSE CASE scheme = "file" -> Local(After(s, b + 2))
               [] scheme = "cifs" -> Remote(After(s, b + 2))
               [] OTHER -> Absent

UriInit == uri = {}
ParseUri == uri = {} /\ \E u \in Addresses : uri' = {u}
UriSpec == UriInit /\ [][ParseUri]_uri
-------------------------------------------------------------------------------
(* The reference: how the usage text and uri.h write a name *)

Number(port) == CHOOSE t \in DOMAIN Numbers : Numbers[t] = port

\* [user[:password]@]host[:[addr:]port]
Host(u) ==
    IF u.port = 0 THEN u.host
    ELSE Join(u.host, ":", IF u.addr = Absent THEN <<Number(u.port)>>
                           ELSE Join(u.addr, ":", <<Number(u.port)>>))
User(u) == IF u.password = Absent THEN u.user ELSE Join(u.user, ":", u.password)
Authority(u) == IF u.user = Absent THEN Host(u) ELSE Join(User(u), "@", Host(u))

\* .../share/path
Full(u) == IF u.tree = Absent THEN Authority(u) ELSE Join(Authority(u), "/", Join(u.tree, "/", u.path))

\* (smb|cifs)://..., \\host\share\path
Written(u, scheme) == <<scheme, ":", "/", "/">> \o Full(u)
WrittenUnc(u) == <<"\\", "\\">> \o Replaced(Full(u), "/", "\\")

Escaped(text) ==
    [i \in DOMAIN text |->
        IF \E e \in DOMAIN Escapes : Escapes[e] = text[i]
        THEN CHOOSE e \in DOMAIN Escapes : Escapes[e] = text[i] ELSE text[i]]

\* What the parts of an address consist of: no token is an escape already, a backslash
\* only separates.
Separators == {":", "/", "@"}
Token == STRING \ ({"\\"} \cup DOMAIN Escapes)
Part(without) == {s \in Seq(Token) : \A c \in without : ~Holds(s, c)}

ASSUME UriAssumption ==
    /\ ~(Absent \in Seq(Token))
    /\ Separators \cup {"smb", "cifs"} \subseteq Token /\ ~("\\" \in DOMAIN Escapes)
    /\ DOMAIN Numbers \subseteq Token \ Separators
    /\ \A u \in Addresses :
          /\ u = [scheme |-> "cifs", user |-> u.user, password |-> u.password,
                  host |-> u.host, addr |-> u.addr, port |-> u.port,
                  tree |-> u.tree, path |-> u.path, dir |-> u.dir, file |-> u.file]
          /\ u.user # Absent => u.user \in Part({":", "/", "@"})
          /\ u.password # Absent => u.password \in Part({"/", "@"}) /\ u.user # Absent
          /\ u.host \in Part({":", "/", "@"})
          /\ u.port # 0 => \E t \in DOMAIN Numbers : Numbers[t] = u.port
          /\ u.addr # Absent => u.addr \in Part({"/", "@"}) /\ u.port # 0
          /\ u.tree # Absent => u.tree \in Part({"/"})
          /\ u.tree = Absent => u.path = <<>>
          /\ u.path \in Part({}) /\ u.dir \in Part({}) /\ u.file \in Part({"/"})
          /\ \/ u.path = u.file /\ u.dir = <<>>
             \/ u.path = Join(u.dir, "/", u.file)
-------------------------------------------------------------------------------
\* Every name that is written as the usage text and uri.h say is understood as it was
\* meant: every part is found, none runs into the next, with and without escapes, and
\* path is dir/file (cifs_uri_parse).
UriRoundTrip ==
    \A u \in uri :
        /\ \A t \in {Written(u, "smb"), Written(u, "cifs")} : Parse(t) = u /\ Parse(Escaped(t)) = u
        /\ u.user = Absent /\ u.port = 0 => Parse(WrittenUnc(u)) = u
===============================================================================
