SPECIFICATION SpecPanel
CONSTANTS
    a = a
    b = b
    aprendiz = aprendiz
    panel = panel
    collector = collector
    Peticionario = {a, b, aprendiz}
    Proceso = {panel, collector}
    ProcesoDe <- MCProcesoDe
    Topes = {1, 2}
    MaxDia = 2
    MaxLlamadas = 3
    MaxGastadas = 1
    MaxCaidas = 1
    Peticion = {r1, r2}
    Modelos = 2
    Periodos = {1, 7}
    TopeInforme = 2
    MaxPausa = 1
    MaxNotas = 2
    MaxDatos = 1
    Cuenta = {u}
    Navegador = {n1, n2}
    Duracion = 1
    Umbral = 0
    MaxHora = 1
    MaxClave = 2
    MaxToken = 2
    MaxMuertes = 1
    Manejador = {q1, q2}
    Proveedor = {"groq", "anthropic", "otro"}
    Clave = {"k1", "k2"}
    SinClave = ""
    Puesto = {"http", "redis"}
    PuertoUtil = {2222, 8081}
    Apagado = 0
    Formularios <- MCFormularios
    Semilla <- MCSemilla
    Idioma = {"en"}
    ParDeRed = {"dos"}
    Ninguna = ninguna
    MaxGuardados = 2
    MaxParadas = 1
    Ajuste = {c1, c2, mal}
    AjusteMalo = {mal}
    Reglas = {f, g, rota}
    ReglasMalas = {rota}
    Inicial = inicial
    Ayudante = {h1, h2}
    Margen = {m1, m2, m3}
    Nadie = nadie
    DeFabrica = inicial
    Abierto = abierto
    Orden = {o1, o2}
    Servicio = servicio
INVARIANTS
    TiposDelPanel
    TopeRespetado
    InformeHonesto
    SoloClaveVigente
    AjustesFieles
    UnoAUnoSeRevierte
PROPERTIES
    CadaDiaCumple
    CumplePresupuesto
CONSTRAINT MientrasDeUno
CHECK_DEADLOCK FALSE
