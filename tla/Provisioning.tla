----------------------------- MODULE Provisioning -----------------------------
(***************************************************************************)
(* From power-on to the first TLS connection: main, the boot manager, the  *)
(* CryptoEngine and DecadaManager constructors, certificate renewal and    *)
(* the key-value store in flash they share.  Power may fail between any    *)
(* two writes.  kv_set and kv_get may fail; the wrappers only log that.    *)
(***************************************************************************)
EXTENDS Integers

CONSTANTS Keys,        \* RSA key pairs the board can generate
          Serials,     \* serial numbers the DECADA CA can issue
          MaxCrashes,  \* bound: power failures and crashes
          MaxFaults    \* bound: failing kv_set and kv_get calls

NoKey    == 0          \* the empty string under client_private_key
NoSerial == 0          \* the serial number of no certificate

ASSUME KeysAssumption == Keys \subseteq Nat \ {0} /\ Serials \subseteq Nat \ {0}

ASSUME CrashAssumption == MaxCrashes \in Nat /\ MaxFaults \in Nat

VARIABLES
  store,    \* the key-value store in flash, by field
  pc,       \* control of the thread that boots, configures or provisions
  ret,      \* where SetDefaultConfig and ClearClientSslData return to
  tries,    \* login attempts left
  csr,      \* CryptoEngine::csr_: the key it was made from; NoKey for "" and "invalid"
  resp,     \* csr_sign_resp in hand
  registered,  \* cloud: the device exists in DECADA
  strayed,  \* history: a renewal has replaced another certificate than that in flash
  crashes, faults

ram  == <<ret, tries, csr, resp>>
vars == <<store, pc, ram, registered, strayed, crashes, faults>>

-----------------------------------------------------------------------------
(* Data: a certificate is the key it certifies and its serial number; the   *)
(* serial number kept beside it in flash stands for the certificate the CA  *)
(* knows by it.  Of a Wi-Fi password only whether it has two characters or  *)
(* more matters.  The value "" is a key that was never written; a line an   *)
(* operator typed, the empty one included, is "set", or "short" for a       *)
(* password.                                                                *)

NoCert == [key |-> NoKey, sn |-> NoSerial]
Certs  == [key : Keys, sn : Serials]

Blank == [sw_ver |-> "", init |-> "", interval |-> "", ssid |-> "", pass |-> "",
          cert |-> NoCert, sn |-> NoCert, key |-> NoKey]

Stores == [sw_ver : {"", "3.1.0"}, init : {"", "true"}, interval : {"", "10000", "custom"},
           ssid : {"", "set"}, pass : {"", "short", "long"},
           cert : Certs \cup {NoCert}, sn : Certs \cup {NoCert}, key : Keys \cup {NoKey}]

\* persist_store.cpp: WriteKey drops the error of kv_set.
WriteKey(f, v) ==
  \/ store' = [store EXCEPT ![f] = v] /\ UNCHANGED faults
  \/ faults < MaxFaults /\ faults' = faults + 1 /\ UNCHANGED store

\* ReadKey returns the stored value, or the empty string when kv_get fails.
ReadKey(f, v) ==
  \/ v = store[f] /\ UNCHANGED faults
  \/ faults < MaxFaults /\ faults' = faults + 1 /\ v = Blank[f]

Go(l)   == pc' = l /\ UNCHANGED <<registered, crashes>>
Goto(l) == Go(l) /\ UNCHANGED strayed

\* A reset clears RAM.
Off == /\ pc' = "off" /\ ret' = "login" /\ tries' = 3 /\ csr' = NoKey /\ resp' = NoCert
       /\ UNCHANGED <<registered, strayed>>

Init == /\ store = Blank
        /\ pc = "off" /\ ret = "login" /\ tries = 3 /\ csr = NoKey /\ resp = NoCert
        /\ registered = FALSE /\ strayed = FALSE /\ crashes = 0 /\ faults = 0

-----------------------------------------------------------------------------
(* main: the boot manager on a key press or without a valid init flag *)

PowerOn ==
  /\ pc = "off"
  /\ \E keypress \in BOOLEAN, flag \in {"", "true"} :
       /\ ReadKey("init", flag)
       /\ Goto(IF flag # "true" \/ keypress THEN "boot" ELSE "run")
  /\ UNCHANGED <<store, ram>>

-----------------------------------------------------------------------------
(* RunBootManager *)

\* The init flag is read a second time.
RunBootManager ==
  /\ pc = "boot"
  /\ \E flag \in {"", "true"} :
       ReadKey("init", flag) /\ Goto(IF flag = "true" THEN "sw_ver" ELSE "def_ssid")
  /\ UNCHANGED <<store, ram>>

\* SetDefaultConfig, then ClearClientSslData, write by write.
DefaultSsid == /\ pc = "def_ssid" /\ WriteKey("ssid", "set") /\ Goto("def_pass")
               /\ UNCHANGED ram
DefaultPass == /\ pc = "def_pass" /\ WriteKey("pass", "long") /\ Goto("clr_cert")
               /\ UNCHANGED ram

\* Variant: the private key goes first and the certificate last.
ClearKeyFirst ==
  /\ pc \in {"clr_cert", "clr_sn", "clr_key"}
  /\ \/ pc = "clr_cert" /\ WriteKey("key", NoKey) /\ Goto("clr_sn")
     \/ pc = "clr_sn" /\ WriteKey("sn", NoCert) /\ Goto("clr_key")
     \/ pc = "clr_key" /\ WriteKey("cert", NoCert)
        /\ Goto(IF ret = "login" THEN "sw_ver" ELSE "menu")
  /\ UNCHANGED ram

ClearClientSslData ==
  /\ pc \in {"clr_cert", "clr_sn", "clr_key"}
  /\ \/ /\ pc = "clr_cert" /\ WriteKey("cert", NoCert) /\ Go("clr_sn")
        /\ strayed' = FALSE
     \/ pc = "clr_sn" /\ WriteKey("sn", NoCert) /\ Goto("clr_key")
     \/ pc = "clr_key" /\ WriteKey("key", NoKey)
        /\ Goto(IF ret = "login" THEN "sw_ver" ELSE "menu")
  /\ UNCHANGED ram

WriteSwVer == /\ pc = "sw_ver" /\ WriteKey("sw_ver", "3.1.0") /\ Goto("login")
              /\ UNCHANGED ram

\* BootManagerLogin: three attempts, then the board hangs until it loses power.
LoginOk == /\ pc = "login" /\ tries > 0
           /\ Goto("init_interval")
           /\ UNCHANGED <<store, faults, ram>>

\* Variant: the attempts are counted but not limited.
LoginUnlimited == /\ pc = "login"
                  /\ tries' = tries - 1
                  /\ Goto("login")
                  /\ UNCHANGED <<store, faults, ret, csr, resp>>

LoginWrong == /\ pc = "login" /\ tries > 0
              /\ tries' = tries - 1
              /\ Goto(IF tries = 1 THEN "locked" ELSE "login")
              /\ UNCHANGED <<store, faults, ret, csr, resp>>

\* while(1): only a power cycle ends it.
PowerCycle == /\ pc = "locked" /\ Off /\ UNCHANGED <<store, crashes, faults>>

\* Variant: the flag is written before the configuration it vouches for.
FlagFirst ==
  /\ \/ pc = "init_interval" /\ WriteKey("init", "true") /\ Goto("init_flag")
     \/ pc = "init_flag" /\ WriteKey("interval", "10000") /\ Goto("menu")
  /\ UNCHANGED ram

InitAfterLogin ==
  /\ \/ pc = "init_interval" /\ WriteKey("interval", "10000") /\ Goto("init_flag")
     \/ pc = "init_flag" /\ WriteKey("init", "true") /\ Goto("menu")
  /\ UNCHANGED ram

\* PrintMenu censors the password with std::string::replace(1, length - 2, ...), which
\* throws for fewer than two characters: the uncaught exception ends in a reboot.
PrintMenu ==
  /\ pc = "menu"
  /\ \E pass \in {"", "short", "long"} :
       /\ ReadKey("pass", pass)
       /\ IF pass = "long" THEN pc' = "input" /\ UNCHANGED <<ram, registered, strayed>> ELSE Off
  /\ UNCHANGED <<store, crashes>>

Quit == /\ pc = "input" /\ Off /\ UNCHANGED <<store, crashes, faults>>

ChooseDefaults == /\ pc = "input" /\ ret' = "menu" /\ Goto("def_ssid")
                  /\ UNCHANGED <<store, faults, tries, csr, resp>>

ChooseClear == /\ pc = "input" /\ ret' = "menu" /\ Goto("clr_cert")
               /\ UNCHANGED <<store, faults, tries, csr, resp>>

ChooseSsid == /\ pc = "input" /\ WriteKey("ssid", "set") /\ Goto("menu") /\ UNCHANGED ram

\* GetUserInputString takes any line, the empty one included.
ChoosePass == /\ pc = "input"
              /\ \E p \in {"short", "long"} : WriteKey("pass", p)
              /\ Goto("menu") /\ UNCHANGED ram

InvalidChoice == /\ pc = "input" /\ Goto("menu") /\ UNCHANGED <<store, faults, ram>>

-----------------------------------------------------------------------------
(* communications_controller_thread: DecadaManager decada(network) *)

\* CryptoEngine(): without a seeded PRNG, or with a certificate, csr_ stays empty.
SeedFails == pc = "run" /\ Goto("device") /\ UNCHANGED <<store, faults, ram>>

ReadCertificate ==
  /\ pc = "run"
  /\ \E c \in {store.cert, NoCert} :
       /\ ReadKey("cert", c)
       /\ Goto(IF c = NoCert THEN "gen_key" ELSE "device")
  /\ UNCHANGED <<store, ram>>

\* GenerateKeypair: a new key, written to flash before the CSR is made from it.
GenerateKeypair ==
  /\ pc = "gen_key"
  /\ \E k \in Keys \ {store.key, store.cert.key} :
       WriteKey("key", k) /\ csr' = k
  /\ Goto("gen_csr")
  /\ UNCHANGED <<ret, tries, resp>>

\* Returns "": no CSR, the constructor of DecadaManager skips the signing.
GenerateKeypairFails == pc = "gen_key" /\ Goto("device") /\ UNCHANGED <<store, faults, ram>>

\* GenerateCertificateSigningRequest returns a PEM text or the string "invalid".
GenerateCertificateSigningRequest ==
  /\ pc = "gen_csr"
  /\ csr' \in {csr, NoKey}
  /\ Goto("sign")
  /\ UNCHANGED <<store, faults, ret, tries, resp>>

\* SignCertificateSigningRequest: the CA certifies the key of a well-formed CSR ...
SignOk ==
  /\ pc = "sign" /\ csr # NoKey
  /\ \E n \in Serials \ {store.sn.sn, store.cert.sn} : resp' = [key |-> csr, sn |-> n]
  /\ Go("write_cert")
  /\ UNCHANGED <<store, faults, ret, tries, csr, strayed>>

\* ... or an answer without a certificate or a serial number leaves the store alone.
SignInvalid == pc = "sign" /\ Goto("device") /\ UNCHANGED <<store, faults, ram>>

\* An answer without "data": Json::Value::get on the default string aborts.
SignAborts == pc = "sign" /\ Off /\ UNCHANGED <<store, crashes, faults>>

\* The constructor of DecadaManager stores both parts of the answer.
StoreSigned ==
  /\ \/ /\ pc = "write_cert" /\ WriteKey("cert", resp) /\ Go("write_sn")
        /\ strayed' = FALSE
     \/ pc = "write_sn" /\ WriteKey("sn", resp) /\ Goto("device")
  /\ UNCHANGED ram

\* CheckDeviceCreation asks for the secret once ...
GetDeviceSecret ==
  /\ pc = "device"
  /\ \/ registered /\ Goto("connect")
     \/ Goto("create")                       \* no such device, or no answer
  /\ UNCHANGED <<store, faults, ram>>

\* ... and then only asks to create the device, until that answers with a secret.  The
\* answer may be lost, and there is none for a device that exists.
CreateDeviceInDecada ==
  /\ pc = "create"
  /\ registered' = TRUE
  /\ pc' \in IF registered THEN {"create"} ELSE {"connect", "create"}
  /\ UNCHANGED <<store, faults, ram, strayed, crashes>>

\* Variant: the loop kicks the watchdog.
WatchdogKicked == FALSE /\ UNCHANGED vars

\* The loop never kicks the watchdog, and the other threads still wait for FLAG_MQTT_OK.
WatchdogReset == pc = "create" /\ Off /\ UNCHANGED <<store, crashes, faults>>

\* Connect: the handshake succeeds only with the private key of the certificate.
ConnectOk ==
  /\ pc = "connect"
  /\ store.cert # NoCert /\ store.key = store.cert.key
  /\ Goto("online")
  /\ UNCHANGED <<store, faults, ram>>

\* The reconnections that follow fail too and end in NVIC_SystemReset.
ConnectFails == pc = "connect" /\ Off /\ UNCHANGED <<store, crashes, faults>>

-----------------------------------------------------------------------------
(* Normal operation *)

\* execute_sensor_control: WriteCycleInterval.
PollRateCommand ==
  /\ pc = "online" /\ WriteKey("interval", "custom")
  /\ UNCHANGED <<pc, ram, registered, strayed, crashes>>

\* RenewCertificate asks by the serial number in flash, whichever certificate that is of;
\* the CA certifies the key of that certificate again, if it knows one, or refuses.
RenewCertificate ==
  /\ pc = "online"
  /\ \E sn \in {store.sn, NoCert} :
       /\ ReadKey("sn", sn)
       /\ \/ /\ sn # NoCert
             /\ \E n \in Serials \ {sn.sn, store.cert.sn} : resp' = [key |-> sn.key, sn |-> n]
             /\ Goto("renew_cert")
          \/ Goto("online") /\ UNCHANGED resp
  /\ UNCHANGED <<store, ret, tries, csr>>

StoreRenewed ==
  \/ /\ pc = "renew_cert" /\ WriteKey("cert", resp) /\ Go("renew_sn")
     /\ strayed' = (strayed \/ store.sn # store.cert)
     /\ UNCHANGED ram
  \/ pc = "renew_sn" /\ WriteKey("sn", resp) /\ Off /\ UNCHANGED crashes

\* Power failure, hard fault or watchdog reset between any two steps.
Crash ==
  /\ pc # "off" /\ crashes < MaxCrashes
  /\ crashes' = crashes + 1
  /\ Off
  /\ UNCHANGED <<store, faults>>

-----------------------------------------------------------------------------
BootManager == RunBootManager \/ DefaultSsid \/ DefaultPass \/ ClearClientSslData \/ WriteSwVer
               \/ InitAfterLogin \/ PrintMenu
Operator    == LoginOk \/ LoginWrong \/ PowerCycle \/ Quit \/ ChooseDefaults \/ ChooseClear
               \/ ChooseSsid \/ ChoosePass \/ InvalidChoice
Provision   == SeedFails \/ ReadCertificate \/ GenerateKeypair \/ GenerateKeypairFails
               \/ GenerateCertificateSigningRequest \/ SignOk \/ SignInvalid \/ SignAborts
               \/ StoreSigned \/ GetDeviceSecret \/ CreateDeviceInDecada \/ WatchdogReset
               \/ ConnectOk \/ ConnectFails
Normal      == PollRateCommand \/ RenewCertificate \/ StoreRenewed

Next == PowerOn \/ BootManager \/ Operator \/ Provision \/ Normal \/ Crash

\* The board runs whenever it can; entropy, the CA and the broker work again and again.
Fairness == /\ WF_vars(PowerOn \/ BootManager \/ Provision \/ StoreRenewed)
            /\ SF_vars(ReadCertificate) /\ SF_vars(GenerateKeypair)
            /\ SF_vars(GenerateCertificateSigningRequest /\ csr' = csr)
            /\ SF_vars(SignOk) /\ SF_vars(GetDeviceSecret /\ pc' = "connect")
            /\ SF_vars(CreateDeviceInDecada) /\ WF_vars(WatchdogReset) /\ SF_vars(ConnectOk)

Spec     == Init /\ [][Next]_vars
FairSpec == Spec /\ Fairness

-----------------------------------------------------------------------------
(* Properties *)

Labels == {"off", "boot", "def_ssid", "def_pass", "clr_cert", "clr_sn", "clr_key", "sw_ver",
           "login", "locked", "init_interval", "init_flag", "menu", "input", "run",
           "gen_key", "gen_csr", "sign", "write_cert", "write_sn", "device", "create",
           "connect", "online", "renew_cert", "renew_sn"}

\* The store holds values the firmware writes, and the login counter never passes zero.
TypeOK ==
  /\ store \in Stores
  /\ pc \in Labels
  /\ ret \in {"login", "menu"} /\ tries \in 0..3
  /\ csr \in Keys \cup {NoKey}
  /\ resp \in Certs \cup {NoCert}
  /\ registered \in BOOLEAN /\ strayed \in BOOLEAN
  /\ crashes \in Nat /\ faults \in Nat

\* As long as no kv call fails, a certificate in flash always comes with the private key
\* it certifies, whatever point of the key generation, signing, renewal or clearing the
\* power fails at: the next boot can use what it finds.  The one exception is a renewal
\* (RenewCertificate) while the serial number in flash is not that of the certificate in
\* flash, which a crash between their two writes leaves behind: it may bring back the
\* certificate of an older key, and that lasts until the certificate is cleared.
CertMatchesKey ==
  faults = 0 /\ ~strayed /\ store.cert # NoCert => store.key = store.cert.key

\* As long as no kv call fails, a board that skips the boot manager has a complete
\* configuration: the init flag is written after everything it vouches for.
ConfigComplete ==
  faults = 0 /\ store.init = "true" =>
    store.interval # "" /\ store.ssid # "" /\ store.pass # ""

\* GenerateKeypair reports success when the private key is in flash.
KeyWrittenToFlash == pc = "gen_csr" => store.key = csr

\* The serial number in flash is the one of the certificate in flash while the board
\* is online.
SerialOfCertificate == pc = "online" => store.sn = store.cert

\* The board heals: after any crash it provisions itself and gets online, unless an
\* operator keeps it in the boot manager, or a renewal by the serial number of another
\* certificate has replaced the one of its key.
GetsOnline ==
  faults = 0 /\ ~strayed /\ pc = "run"
    ~> faults > 0 \/ strayed \/ pc \in {"online", "login", "locked", "input"}
=============================================================================
