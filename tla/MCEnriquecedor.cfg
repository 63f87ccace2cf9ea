SPECIFICATION Spec
CONSTANTS
    a = a
    b = b
    c = c
    k1 = k1
    k2 = k2
    IP = {a, b}
    Privadas = {}
    Sucesos <- MCHechos
    Origenes <- MCMalo
    Ajustes <- MCDosClaves
    Clave = {k1, k2}
    SinClave = SinClave
    Umbrales = {75}
    Cupo = 2
    Reserva = 1
    Caducidad = 0
    PorTanda = 2
    MaxReloj = 1
    MaxEventos = 2
    MaxFallos = 1
    MaxAjustes = 2
    MaxPurgas = 1
    MaxCaidas = 0
INVARIANTS Inductivo ReservaRespetada RejuzgadoBien
PROPERTIES NoGastaDosVeces LoHechoNoSeRebaja
CHECK_DEADLOCK FALSE
