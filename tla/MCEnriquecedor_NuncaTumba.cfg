SPECIFICATION Spec
CONSTANTS
    a = a
    b = b
    c = c
    k1 = k1
    k2 = k2
    IP = {a, b}
    Privadas = {}
    Sucesos <- MCSsh
    Origenes <- MCMalo
    Ajustes <- MCEncenderApagar
    Clave = {k1}
    SinClave = SinClave
    Umbrales = {75}
    Cupo = 2
    Reserva = 1
    Caducidad = 0
    PorTanda = 2
    MaxReloj = 1
    MaxEventos = 2
    MaxFallos = 0
    MaxAjustes = 2
    MaxPurgas = 0
    MaxCaidas = 0
INVARIANTS NuncaTumbaLaCaptura
CHECK_DEADLOCK FALSE
