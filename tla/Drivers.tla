------------------------------- MODULE Drivers ------------------------------
(***************************************************************************)
(* A machine with one of seven independent drivers loaded, which one being *)
(* chosen at the start.  They share nothing, so that what one of them does *)
(* is what its own module says.                                            *)
(***************************************************************************)
EXTENDS ShortPrint, Ldt, Sbull, UsbSkel, Short, ScullPriv, ScullSetup

VARIABLE driver     \* the driver that is loaded

driversVars == <<driver, shortpVars, ldtVars, sbullVars, skelVars, shortVars, privVars,
                 setupVars>>

DriversInit ==
    /\ driver \in {"shortprint", "ldt", "sbull", "usb-skeleton", "short", "scullpriv",
                  "scull"}
    /\ ShortpInit /\ LdtInit /\ SbullInit /\ SkelInit /\ ShortInit /\ PrivInit
    /\ SetupInit
    /\ driver # "shortprint" => spcf = CHOOSE c \in ShortpConfigs : TRUE
    /\ driver # "ldt" => /\ uart_detected = CHOOSE b \in LdtUart : TRUE
                         /\ loopback = CHOOSE b \in LdtLoopback : TRUE
    /\ driver # "short" => shcf = CHOOSE c \in ShortConfigs : TRUE
    /\ driver # "scullpriv" => tty = [p \in PrivProcs |-> NoTty]

DriversNext ==
    /\ UNCHANGED driver
    /\ \/ /\ driver = "shortprint" /\ ShortpNext
          /\ UNCHANGED <<ldtVars, sbullVars, skelVars, shortVars, privVars, setupVars>>
       \/ /\ driver = "ldt" /\ LdtNext
          /\ UNCHANGED <<shortpVars, sbullVars, skelVars, shortVars, privVars, setupVars>>
       \/ /\ driver = "sbull" /\ SbullNext
          /\ UNCHANGED <<shortpVars, ldtVars, skelVars, shortVars, privVars, setupVars>>
       \/ /\ driver = "usb-skeleton" /\ SkelNext
          /\ UNCHANGED <<shortpVars, ldtVars, sbullVars, shortVars, privVars, setupVars>>
       \/ /\ driver = "short" /\ ShortNext
          /\ UNCHANGED <<shortpVars, ldtVars, sbullVars, skelVars, privVars, setupVars>>
       \/ /\ driver = "scullpriv" /\ PrivNext
          /\ UNCHANGED <<shortpVars, ldtVars, sbullVars, skelVars, shortVars, setupVars>>
       \/ /\ driver = "scull" /\ SetupNext
          /\ UNCHANGED <<shortpVars, ldtVars, sbullVars, skelVars, shortVars, privVars>>

\* The fairness of the drivers that have some: the one that is not loaded has nothing
\* to do.
DriversSpec ==
    /\ DriversInit /\ [][DriversNext]_driversVars
    /\ ShortpFairness /\ LdtFairness

-----------------------------------------------------------------------------
\* The variables of every driver keep their types, and scull_c_open leaves its spinlock
\* behind on no path (access.c 285-291).
DriversTypeOK ==
    ShortpTypeOK /\ LdtTypeOK /\ SbullTypeOK /\ SkelTypeOK /\ ShortTypeOK /\ PrivTypeOK

\* In none of the drivers that block does a process sleep on what is already there:
\* the readers of shortprint (188-195) and short (272-279), readers and writers of ldt.
NoLostWakeup == ReaderWoken /\ ShortReaderWoken /\ LdtNoLostWakeup
=============================================================================
